---- MODULE Spec2Model ----
(***************************************************************************)
(* Model of the x402 paywall's Resource Guard, the GET handler of          *)
(* /api/premium (src/app/api/premium/route.js, lines 553-881), together    *)
(* with the facilitator it calls through thirdweb's settlePayment, and of  *)
(* the client page that negotiates the payment (src/unnamed/part_000), and *)
(* of the x402-fetch proxy, the POST handler of the same file.             *)
(*                                                                         *)
(* Strings that the code builds or takes apart are sequences of tokens     *)
(* (a URL's pathname is <<"/", "api", "/", "premium">>); strings the code  *)
(* only passes along are TLA+ strings.  A request handling is a process    *)
(* with one suspension point, the await of settlePayment.                  *)
(***************************************************************************)
EXTENDS Integers, Sequences, FiniteSets, TLC

VARIABLES
    env,          \* process.env, read once at module scope and per request
    fileState,    \* the protected video on disk: present, missing, unreadable
    request,      \* request[r]: the URL and X-PAYMENT header request r carried
    pc,           \* pc[r]: where the handling of request r stands
    settleCalls,  \* settleCalls[r]: arguments of each settlePayment call made for r
    result,       \* result[r]: what settlePayment returned or threw for r
    response,     \* response[r]: the HTTP response sent for r
    consumed,     \* facilitator: the proofs it has settled
    moved         \* facilitator: moved[p], the number of transfers executed for proof p

\* The client page (src/unnamed/part_000, Home): its React state, the wallet
\* behind the wagmi hooks, and the handler that is running
VARIABLES
    page,         \* which source renders the page: part_000, or the older page.js
    status,       \* idle, loading, payment-required, processing, success, error
    paymentInfo,  \* the payment description held from the 402, or Null
    content,      \* the content shown after success, or Null
    error,        \* the message shown to the user, NoError when null
    step,         \* the step indicator, 0..5
    wallet,       \* the user's wallet: connection, chain, requests awaiting the user
    run           \* the handler last started: its position, what it closed over at
                  \* the click, and what it sent and received

\* The x402-fetch proxy (route.js 903-984, POST)
VARIABLES
    post          \* post[p]: the body POST request p carried, where its handling
                  \* stands, the calls made to the thirdweb API, what that
                  \* answered and the response sent

serverVars ==
    <<env, fileState, request, pc, settleCalls, result, response, consumed, moved>>

clientVars == <<page, status, paymentInfo, content, error, step, wallet, run>>

proxyVars == <<post>>

vars == <<serverVars, clientVars, proxyVars>>

(***************************************************************************)
(* Bounds                                                                  *)
(***************************************************************************)
MaxRequests == 2

Requests == 1..MaxRequests

(***************************************************************************)
(* Values                                                                  *)
(***************************************************************************)
Unset == "<unset>"            \* an environment variable that is not set
NoHeader == "<null>"          \* request.headers.get('x-payment') === null

ZERO_ADDRESS == "0x0000000000000000000000000000000000000000"

\* JavaScript truthiness of a string-or-undefined value
Truthy(s) == s # Unset /\ s # NoHeader /\ s # ""

\* a || b on strings
OrElse(a, b) == IF Truthy(a) THEN a ELSE b

EmptyHeaders == [k \in {} |-> ""]

\* JavaScript undefined, where the code expects an object
Undefined == [undefined |-> TRUE]

(***************************************************************************)
(* Numbers and strings                                                     *)
(***************************************************************************)
RECURSIVE Digits(_)
\* Number.prototype.toString for a non-negative integer: its decimal digits
Digits(n) == IF n < 10 THEN <<n>> ELSE Append(Digits(n \div 10), n % 10)

RECURSIVE parseInt(_)
\* parseInt on a string of decimal digits
parseInt(digits) ==
    IF Len(digits) = 0 THEN 0
    ELSE 10 * parseInt(SubSeq(digits, 1, Len(digits) - 1)) + digits[Len(digits)]

\* The amounts a with a % 10000 = 5000, below one million units, for which the
\* double a / 1000000 lies below the decimal tie, so that toFixed(2) rounds down
TiesRoundedDown ==
    {15000, 45000, 75000, 105000, 145000, 155000, 175000, 185000, 205000,
     215000, 235000, 245000, 285000, 295000, 305000, 345000, 355000, 365000,
     415000, 425000, 435000, 475000, 485000, 495000, 565000, 575000, 585000,
     595000, 605000, 615000, 695000, 705000, 715000, 725000, 735000, 745000,
     815000, 825000, 835000, 845000, 855000, 865000, 945000, 955000, 965000,
     975000, 985000, 995000}

\* (amount / 1_000_000).toFixed(2), as a number of cents
toFixed2(amount) ==
    LET whole == amount \div 10000
        rest == amount % 10000
    IN  IF rest > 5000 \/ (rest = 5000 /\ amount \notin TiesRoundedDown)
        THEN whole + 1
        ELSE whole

\* (amount / 1_000_000).toFixed(6): exact, six decimals
toFixed6(amount) == [units |-> amount \div 1000000, micro |-> amount % 1000000]

\* String.prototype.toLowerCase on the network names that occur
toLowerCase(s) ==
    CASE s = "BASE" -> "base"
      [] s = "Base" -> "base"
      [] s = "Base:8453" -> "base:8453"
      [] s = "EIP155:8453" -> "eip155:8453"
      [] s = "Base-Sepolia" -> "base-sepolia"
      [] s = "Base:84532" -> "base:84532"
      [] s = "EIP155:84532" -> "eip155:84532"
      [] OTHER -> s

\* str.replace(/\/$/, '') on a tokenised string: drops one trailing "/"
stripTrailingSlash(toks) ==
    IF Len(toks) > 0 /\ toks[Len(toks)] = "/"
    THEN SubSeq(toks, 1, Len(toks) - 1)
    ELSE toks

(***************************************************************************)
(* Module-scope configuration (route.js 553-586)                           *)
(***************************************************************************)
MERCHANT_ADDRESS == OrElse(env.MERCHANT_ADDRESS, ZERO_ADDRESS)

SERVER_WALLET_ADDRESS == OrElse(env.SERVER_WALLET_ADDRESS, MERCHANT_ADDRESS)

NETWORK == OrElse(env.NEXT_PUBLIC_NETWORK, "base")

USDC_SEPOLIA == "0x036CbD53842c5426634e7929541eC2318f3dCF7e"
USDC_MAINNET == "0x833589fCD6eDb6E08f4c7C32D4f71b54bdA02913"

USDC_ADDRESSES ==
    [n \in {"base-sepolia", "base", "base:84532", "base:8453"} |->
        IF n \in {"base", "base:8453"} THEN USDC_MAINNET ELSE USDC_SEPOLIA]

USDC_METADATA ==
    [n \in {"base-sepolia", "base"} |->
        IF n = "base" THEN [name |-> "USD Coin", version |-> "2"]
                      ELSE [name |-> "USDC", version |-> "2"]]

\* the default amount one digit short: 0.01 USDC
PAYMENT_AMOUNT_DefaultOneCent ==
    IF env.PAYMENT_AMOUNT = <<>> THEN parseInt(<<1, 0, 0, 0, 0>>)
    ELSE parseInt(env.PAYMENT_AMOUNT)

\* parseInt(process.env.PAYMENT_AMOUNT || '100000'): the variable is a string of
\* decimal digits, empty or unset when <<>>
PAYMENT_AMOUNT ==
    parseInt(IF env.PAYMENT_AMOUNT = <<>> THEN <<1, 0, 0, 0, 0, 0>>
                                         ELSE env.PAYMENT_AMOUNT)

PAYMENT_DESCRIPTION == "Access to premium video content"
PAYMENT_MIME_TYPE == "video/mp4"
PAYMENT_TIMEOUT_SECONDS == 86400

MAINNET_ALIASES == {"base", "base:8453", "eip155:8453"}

\* thirdweb/chains: base and baseSepolia
base == [id |-> 8453, name |-> "Base"]
baseSepolia == [id |-> 84532, name |-> "Base Sepolia"]

resolveNetworkConfig(networkInput) ==
    LET normalized == toLowerCase(OrElse(networkInput, ""))
        isMainnet == normalized \in MAINNET_ALIASES
    IN  [isMainnet |-> isMainnet,
         x402Network |-> IF isMainnet THEN "base" ELSE "base-sepolia",
         displayNetwork |-> IF isMainnet THEN "base:8453" ELSE "base:84532",
         networkName |-> IF isMainnet THEN "Base" ELSE "Base Sepolia",
         usdcAddress |-> USDC_ADDRESSES[IF isMainnet THEN "base" ELSE "base-sepolia"]]

(***************************************************************************)
(* URLs.  A request URL is [origin, pathname, search]; NoUrl is a request  *)
(* whose url is empty.                                                     *)
(***************************************************************************)
NoUrl == [origin |-> <<>>, pathname |-> <<>>, search |-> <<>>]

FALLBACK_BASE == <<"http://localhost:3000">>

\* the resource built from the configured base URL whatever the request was
buildResourceUrlFromConfig(req) ==
    stripTrailingSlash(
        IF env.NEXT_PUBLIC_APP_URL = <<>> THEN FALLBACK_BASE
                                         ELSE env.NEXT_PUBLIC_APP_URL)
    \o <<"/", "api", "/", "premium">>

\* route.js 605-614: buildResourceUrl

buildResourceUrl(req) ==
    IF req.url # NoUrl
    THEN req.url.origin \o stripTrailingSlash(req.url.pathname)
    ELSE stripTrailingSlash(
             IF env.NEXT_PUBLIC_APP_URL = <<>> THEN FALLBACK_BASE
                                              ELSE env.NEXT_PUBLIC_APP_URL)
         \o <<"/", "api", "/", "premium">>

buildX402Requirements(req) ==
    LET net == resolveNetworkConfig(NETWORK)
        usdcMetadata == IF net.x402Network \in DOMAIN USDC_METADATA
                        THEN USDC_METADATA[net.x402Network]
                        ELSE [name |-> "USD Coin", version |-> "2"]
    IN  [scheme |-> "exact",
         network |-> net.x402Network,
         maxAmountRequired |-> Digits(PAYMENT_AMOUNT),
         resource |-> buildResourceUrl(req),
         description |-> PAYMENT_DESCRIPTION,
         mimeType |-> PAYMENT_MIME_TYPE,
         payTo |-> MERCHANT_ADDRESS,
         maxTimeoutSeconds |-> PAYMENT_TIMEOUT_SECONDS,
         asset |-> net.usdcAddress,
         extra |-> [name |-> usdcMetadata.name,
                    version |-> usdcMetadata.version,
                    primaryType |-> "TransferWithAuthorization",
                    recipientAddress |-> MERCHANT_ADDRESS]]

buildPaymentConfig(req) ==
    LET net == resolveNetworkConfig(NETWORK)
        x402Requirements == buildX402Requirements(req)
    IN  [resourceUrl |-> buildResourceUrl(req),
         network |-> [isMainnet |-> net.isMainnet,
                      displayNetwork |-> net.displayNetwork,
                      networkName |-> net.networkName,
                      x402Network |-> net.x402Network,
                      usdcAddress |-> net.usdcAddress],
         payment |-> [scheme |-> "exact",
                      network |-> net.displayNetwork,
                      networkName |-> net.networkName,
                      token |-> net.usdcAddress,
                      recipient |-> MERCHANT_ADDRESS,
                      amount |-> Digits(PAYMENT_AMOUNT),
                      displayAmount |-> toFixed6(PAYMENT_AMOUNT),
                      description |-> PAYMENT_DESCRIPTION,
                      x402Requirements |-> x402Requirements],
         x402Requirements |-> x402Requirements]


(***************************************************************************)
(* Inputs: the requests that arrive                                        *)
(***************************************************************************)
Origin == <<"https://paywall.example">>

PremiumUrl ==
    [origin |-> Origin, pathname |-> <<"/", "api", "/", "premium">>, search |-> <<>>]

PremiumSlashQueryUrl ==
    [origin |-> Origin, pathname |-> <<"/", "api", "/", "premium", "/">>,
     search |-> <<"?", "retry=1">>]

RequestUrls == {PremiumUrl, PremiumSlashQueryUrl}

\* A resource of the same origin that this route does not serve
OtherUrl ==
    [origin |-> Origin, pathname |-> <<"/", "api", "/", "other">>, search |-> <<>>]

\* X-PAYMENT values: absent, empty, a proof signed for the premium resource,
\* a payload whose signature does not verify, and a proof signed for another
\* resource
ProofHeaders == {"proofA", "forged", "proofOther"}

PaymentHeaders == {NoHeader, ""} \cup ProofHeaders

NoRequest == [url |-> NoUrl, xPayment |-> NoHeader]

\* What is inside each proof: whether its signature verifies, whether its
\* validity window has passed, and the URL whose challenge it was built from
ProofTable(h) ==
    CASE h = "proofA" -> [signed |-> TRUE, expired |-> FALSE, url |-> PremiumUrl]
      [] h = "proofOther" -> [signed |-> TRUE, expired |-> FALSE, url |-> OtherUrl]
      [] OTHER -> [signed |-> FALSE, expired |-> FALSE, url |-> PremiumUrl]

\* The requirements a proof was signed over: those of the 402 challenge
ProofBinding(h) ==
    buildX402Requirements([url |-> ProofTable(h).url, xPayment |-> NoHeader])

(***************************************************************************)
(* Responses                                                               *)
(***************************************************************************)
NoResponse == [status |-> 0, headers |-> EmptyHeaders, body |-> Undefined]

\* NextResponse.json(body, { status, headers })
Json(body, code, headers) ==
    [status |-> code,
     headers |-> headers @@ ("Content-Type" :> "application/json"),
     body |-> body]

\* the test of line 691 inverted: if (xPaymentHeader)
hasPaymentHeaderInverted(xPaymentHeader) == ~Truthy(xPaymentHeader)

\* route.js 691: if (!xPaymentHeader)
hasPaymentHeader(xPaymentHeader) == Truthy(xPaymentHeader)

\* the challenge without the accepts array
challengeBodyWithoutAccepts(paymentConfig) ==
    [payment |-> paymentConfig.payment]
    @@ paymentConfig.x402Requirements
    @@ [x402Version |-> 1]

\* the requirements stamped with the number of handlings answered so far
challengeBodyWithClock(paymentConfig) ==
    LET clock == Cardinality({q \in DOMAIN pc : pc[q] = "done"})
        stamped == paymentConfig.x402Requirements @@ [issuedAt |-> clock]
    IN  [accepts |-> <<stamped>>, payment |-> paymentConfig.payment]
        @@ stamped
        @@ [x402Version |-> 1]

\* route.js 692-700: { x402Version: 1, ...x402Requirements, accepts, payment };
\* in an object literal a later key replaces an earlier one
challengeBody(paymentConfig) ==
    [accepts |-> <<paymentConfig.x402Requirements>>,
     payment |-> paymentConfig.payment]
    @@ paymentConfig.x402Requirements
    @@ [x402Version |-> 1]

\* route.js 709-734: the configuration checks made once a proof is present;
\* "ok" or the message of the 500 response
configurationFault ==
    IF ~Truthy(env.THIRDWEB_SECRET_KEY) THEN "Payment system not configured."
    ELSE IF ~Truthy(env.THIRDWEB_VAULT_ACCESS_TOKEN)
         THEN "Wallet access credentials not configured."
         ELSE "ok"

\* (PAYMENT_AMOUNT / 1_000_000).toFixed(2) with a leading "$"
priceString == [currency |-> "$", cents |-> toFixed2(PAYMENT_AMOUNT)]

\* the resource of settlement read from the proof the client sent
settleArgumentsFromProof(req, paymentConfig) ==
    [resourceUrl |-> buildResourceUrl([url |-> ProofTable(req.xPayment).url,
                                       xPayment |-> req.xPayment]),
     method |-> "GET",
     paymentData |-> req.xPayment,
     payTo |-> MERCHANT_ADDRESS,
     network |-> IF paymentConfig.network.isMainnet THEN base ELSE baseSepolia,
     price |-> priceString,
     facilitator |-> [serverWalletAddress |-> SERVER_WALLET_ADDRESS,
                      vaultAccessToken |-> env.THIRDWEB_VAULT_ACCESS_TOKEN],
     routeConfig |-> [description |-> PAYMENT_DESCRIPTION,
                      mimeType |-> PAYMENT_MIME_TYPE,
                      maxTimeoutSeconds |-> PAYMENT_TIMEOUT_SECONDS]]

\* the header decoded and encoded again before it is handed over: the same
\* payload in other bytes
settleArgumentsReencoded(req, paymentConfig) ==
    [resourceUrl |-> paymentConfig.resourceUrl,
     method |-> "GET",
     paymentData |-> IF req.xPayment = "proofA" THEN "proofA, encoded again"
                     ELSE req.xPayment,
     payTo |-> MERCHANT_ADDRESS,
     network |-> IF paymentConfig.network.isMainnet THEN base ELSE baseSepolia,
     price |-> priceString,
     facilitator |-> [serverWalletAddress |-> SERVER_WALLET_ADDRESS,
                      vaultAccessToken |-> env.THIRDWEB_VAULT_ACCESS_TOKEN],
     routeConfig |-> [description |-> PAYMENT_DESCRIPTION,
                      mimeType |-> PAYMENT_MIME_TYPE,
                      maxTimeoutSeconds |-> PAYMENT_TIMEOUT_SECONDS]]

\* the resource of settlement taken from request.url as it arrived
settleArgumentsRawUrl(req, paymentConfig) ==
    [resourceUrl |-> req.url.origin \o req.url.pathname \o req.url.search,
     method |-> "GET",
     paymentData |-> req.xPayment,
     payTo |-> MERCHANT_ADDRESS,
     network |-> IF paymentConfig.network.isMainnet THEN base ELSE baseSepolia,
     price |-> priceString,
     facilitator |-> [serverWalletAddress |-> SERVER_WALLET_ADDRESS,
                      vaultAccessToken |-> env.THIRDWEB_VAULT_ACCESS_TOKEN],
     routeConfig |-> [description |-> PAYMENT_DESCRIPTION,
                      mimeType |-> PAYMENT_MIME_TYPE,
                      maxTimeoutSeconds |-> PAYMENT_TIMEOUT_SECONDS]]

\* the chain of settlement chosen by comparing NETWORK as it is written
settleArgumentsChainAsWritten(req, paymentConfig) ==
    [resourceUrl |-> paymentConfig.resourceUrl,
     method |-> "GET",
     paymentData |-> req.xPayment,
     payTo |-> MERCHANT_ADDRESS,
     network |-> IF NETWORK \in {"base", "base:8453"} THEN base ELSE baseSepolia,
     price |-> priceString,
     facilitator |-> [serverWalletAddress |-> SERVER_WALLET_ADDRESS,
                      vaultAccessToken |-> env.THIRDWEB_VAULT_ACCESS_TOKEN],
     routeConfig |-> [description |-> PAYMENT_DESCRIPTION,
                      mimeType |-> PAYMENT_MIME_TYPE,
                      maxTimeoutSeconds |-> PAYMENT_TIMEOUT_SECONDS]]

\* route.js 763-776: the arguments of settlePayment
settleArguments(req, paymentConfig) ==
    [resourceUrl |-> paymentConfig.resourceUrl,
     method |-> "GET",
     paymentData |-> req.xPayment,
     payTo |-> MERCHANT_ADDRESS,
     network |-> IF paymentConfig.network.isMainnet THEN base ELSE baseSepolia,
     price |-> priceString,
     facilitator |-> [serverWalletAddress |-> SERVER_WALLET_ADDRESS,
                      vaultAccessToken |-> env.THIRDWEB_VAULT_ACCESS_TOKEN],
     routeConfig |-> [description |-> PAYMENT_DESCRIPTION,
                      mimeType |-> PAYMENT_MIME_TYPE,
                      maxTimeoutSeconds |-> PAYMENT_TIMEOUT_SECONDS]]

\* an inner catch that calls settlePayment again instead of rethrowing
retriesSettlementError == FALSE

\* route.js 777-784: the inner catch logs and rethrows; it does not call
\* settlePayment again
rethrowsSettlementError == TRUE

\* only a server error of the facilitator counts as failure
settlementNotServerError(res) == res.status < 500

\* every result that was returned, not thrown, counts as success
settlementReturned(res) == res.kind = "returned"

\* a flag at module scope: once any handling has seen a settlement succeed,
\* every handling takes the success branch
settlementSucceededShared(res) == \E q \in DOMAIN result : result[q].status = 200

\* route.js 789: if (result.status !== 200) is the failure branch
settlementSucceeded(res) == res.status = 200

\* route.js 791-797: the facilitator's failure is passed through
settlementFailedResponse(res) ==
    Json(IF res.responseBody # Undefined THEN res.responseBody
         ELSE [error |-> "Payment verification failed"],
         res.status,
         IF res.responseHeaders # Undefined THEN res.responseHeaders
         ELSE EmptyHeaders)

\* route.js 814-861: the video is read from disk and served
serveVideo(file, paymentConfig) ==
    CASE file = "missing" ->
            Json([error |-> "Video file not found",
                  message |-> "The protected video resource is not available."],
                 500, EmptyHeaders)
      [] file = "unreadable" ->
            Json([error |-> "Video file error",
                  message |-> "Payment verified but video file could not be served.",
                  details |-> "EACCES"],
                 500, EmptyHeaders)
      [] OTHER ->
            [status |-> 200,
             headers |-> ("Content-Type" :> "video/mp4")
                         @@ ("Accept-Ranges" :> "bytes")
                         @@ ("Cache-Control" :> "private, no-cache")
                         @@ ("X-Payment-Verified" :> "true")
                         @@ ("X-Payment-Network" :> paymentConfig.network.x402Network),
             body |-> [videoBuffer |-> "video bytes"]]

\* route.js 863-880: the outer catch
verificationErrorResponse(message, paymentConfig) ==
    Json([error |-> "Payment verification error",
          message |-> OrElse(message, "Failed to verify payment. Please try again."),
          hint |-> "The facilitator service may be temporarily unavailable.",
          accepts |-> <<paymentConfig.x402Requirements>>],
         402, EmptyHeaders)

\* route.js 711-734: the 500 configuration responses
configurationErrorResponse(message) ==
    Json([error |-> "Server configuration error", message |-> message],
         500, EmptyHeaders)

(***************************************************************************)
(* The facilitator behind settlePayment: verifies the proof against the    *)
(* requirements it derives from the arguments, settles a valid proof once  *)
(* and remembers it.                                                       *)
(***************************************************************************)
ChainOfNetwork(tag) == IF tag = "base" THEN base.id ELSE baseSepolia.id

\* The requirements the facilitator derives from settlePayment's arguments
FacilitatorRequirements(args) ==
    [scheme |-> "exact",
     network |-> IF args.network.id = base.id THEN "base" ELSE "base-sepolia",
     maxAmountRequired |-> Digits(args.price.cents * 10000),
     resource |-> args.resourceUrl,
     description |-> args.routeConfig.description,
     mimeType |-> args.routeConfig.mimeType,
     payTo |-> args.payTo,
     maxTimeoutSeconds |-> args.routeConfig.maxTimeoutSeconds,
     asset |-> IF args.network.id = base.id THEN USDC_MAINNET ELSE USDC_SEPOLIA]

\* "ok", or the reason the proof is rejected
FacilitatorVerdict(args, settledProofs) ==
    LET h == args.paymentData
        proof == ProofTable(h)
        bound == ProofBinding(h)
        wanted == FacilitatorRequirements(args)
    IN  CASE ~proof.signed -> "invalid_signature"
          [] ChainOfNetwork(bound.network) # args.network.id -> "network_mismatch"
          [] bound.resource # wanted.resource -> "resource_mismatch"
          [] bound.maxAmountRequired # wanted.maxAmountRequired -> "amount_mismatch"
          [] bound.payTo # wanted.payTo -> "recipient_mismatch"
          [] proof.expired -> "expired"
          [] h \in settledProofs -> "already_settled"
          [] OTHER -> "ok"

NoResult ==
    [kind |-> "none", status |-> 0, responseBody |-> Undefined,
     responseHeaders |-> Undefined, message |-> ""]

SettledResult ==
    [kind |-> "returned", status |-> 200, responseBody |-> Undefined,
     responseHeaders |-> Undefined, message |-> ""]

RejectedResult(args, reason, withBody) ==
    [kind |-> "returned", status |-> 402,
     responseBody |-> IF withBody
                      THEN [x402Version |-> 1, error |-> reason,
                            accepts |-> <<FacilitatorRequirements(args)>>]
                      ELSE Undefined,
     responseHeaders |-> IF withBody
                         THEN ("Content-Type" :> "application/json")
                         ELSE Undefined,
     message |-> ""]

ThrownResult(message) ==
    [kind |-> "threw", status |-> 0, responseBody |-> Undefined,
     responseHeaders |-> Undefined, message |-> message]

TransportErrors == {"The operation was aborted due to timeout"}

(***************************************************************************)
(* The client page at rest: what useState and the wagmi hooks hold before  *)
(* the user has done anything (part_000 75-86).  The Resource Guard's      *)
(* specifications keep the page in this state.                             *)
(***************************************************************************)
Null == [null |-> TRUE]       \* null and undefined of the client's state

NoError == <<>>               \* error is null

NoRun ==
    [handler |-> "none", at |-> "end",
     isConnected |-> FALSE, chainId |-> 0, walletClient |-> 0,
     paymentInfo |-> Null,
     initial |-> NoResponse, built |-> Null, sentProofs |-> <<>>,
     retry |-> NoResponse,
     apiError |-> <<>>, proxy |-> NoResponse,
     switchAsked |-> FALSE, cancelled |-> FALSE]

DisconnectedWallet ==
    [isConnected |-> FALSE, chainId |-> 0,
     pendingConnect |-> FALSE, connectRejected |-> FALSE,
     pendingSwitch |-> 0, switchRejected |-> FALSE]

ClientAtRest ==
    /\ page = "part_000"
    /\ status = "idle"
    /\ paymentInfo = Null
    /\ content = Null
    /\ error = NoError
    /\ step = 0
    /\ wallet = DisconnectedWallet
    /\ run = NoRun

\* the fetch of the thirdweb API has not settled
NoUpstream ==
    [kind |-> "none", status |-> 0, json |-> FALSE, text |-> "", message |-> ""]

\* a POST request that has not arrived
NoPost ==
    [pc |-> "unsent", body |-> [kind |-> "none", text |-> EmptyHeaders],
     calls |-> <<>>,
     upstream |-> NoUpstream, response |-> NoResponse]

ProxyAtRest == post = [p \in Requests |-> NoPost]

(***************************************************************************)
(* State machine                                                           *)
(***************************************************************************)
Environments ==
    [MERCHANT_ADDRESS : {Unset, "0xMerchant"},
     SERVER_WALLET_ADDRESS : {Unset},
     NEXT_PUBLIC_NETWORK : {Unset, "base-sepolia"},
     PAYMENT_AMOUNT : {<<>>},
     THIRDWEB_SECRET_KEY : {Unset, "sk"},
     THIRDWEB_VAULT_ACCESS_TOKEN : {Unset, "vt"},
     NEXT_PUBLIC_APP_URL : {<<>>}]

Init ==
    /\ env \in Environments
    /\ fileState \in {"present", "missing", "unreadable"}
    /\ request = [r \in Requests |-> NoRequest]
    /\ pc = [r \in Requests |-> "unsent"]
    /\ settleCalls = [r \in Requests |-> <<>>]
    /\ result = [r \in Requests |-> NoResult]
    /\ response = [r \in Requests |-> NoResponse]
    /\ consumed = {}
    /\ moved = [h \in ProofHeaders |-> 0]
    /\ ClientAtRest
    /\ ProxyAtRest

\* route.js 681-776: a request arrives and GET runs up to its first await:
\* it answers at once, or calls settlePayment and waits
\* (ids, urls and headers are the requests that can arrive)
GETFrom(r, ids, urls, headers) ==
    /\ pc[r] = "unsent"
    /\ \A q \in ids : q < r => pc[q] # "unsent"
    /\ \E url \in urls, xPaymentHeader \in headers :
         LET req == [url |-> url, xPayment |-> xPaymentHeader]
             paymentConfig == buildPaymentConfig(req)
         IN  /\ request' = [request EXCEPT ![r] = req]
             /\ IF ~hasPaymentHeader(xPaymentHeader)
                THEN /\ response' = [response EXCEPT
                                       ![r] = Json(challengeBody(paymentConfig),
                                                   402, EmptyHeaders)]
                     /\ pc' = [pc EXCEPT ![r] = "done"]
                     /\ UNCHANGED settleCalls
                ELSE IF configurationFault # "ok"
                THEN /\ response' = [response EXCEPT
                                       ![r] = configurationErrorResponse(
                                                  configurationFault)]
                     /\ pc' = [pc EXCEPT ![r] = "done"]
                     /\ UNCHANGED settleCalls
                ELSE /\ settleCalls' = [settleCalls EXCEPT
                                          ![r] = Append(@, settleArguments(
                                                               req, paymentConfig))]
                     /\ pc' = [pc EXCEPT ![r] = "awaitSettle"]
                     /\ UNCHANGED response
    /\ UNCHANGED <<env, fileState, result, consumed, moved>>
    /\ UNCHANGED <<clientVars, proxyVars>>

GET(r) == GETFrom(r, Requests, RequestUrls, PaymentHeaders)

\* route.js 763: await settlePayment(...): the facilitator answers the latest
\* call made for r, or the call throws
settlePayment(r) ==
    /\ pc[r] = "awaitSettle"
    /\ LET args == settleCalls[r][Len(settleCalls[r])]
           verdict == FacilitatorVerdict(args, consumed)
       IN  \/ /\ \E message \in TransportErrors :
                    result' = [result EXCEPT ![r] = ThrownResult(message)]
              /\ UNCHANGED <<consumed, moved>>
           \/ /\ verdict = "ok"
              /\ result' = [result EXCEPT ![r] = SettledResult]
              /\ consumed' = consumed \cup {args.paymentData}
              /\ moved' = [moved EXCEPT ![args.paymentData] = @ + 1]
           \/ /\ verdict # "ok"
              /\ \E withBody \in BOOLEAN :
                    result' = [result EXCEPT
                                 ![r] = RejectedResult(args, verdict, withBody)]
              /\ UNCHANGED <<consumed, moved>>
    /\ pc' = [pc EXCEPT ![r] = "settled"]
    /\ UNCHANGED <<env, fileState, request, settleCalls, response>>
    /\ UNCHANGED <<clientVars, proxyVars>>

\* route.js 777-880: GET resumes with the outcome of settlePayment
GETResume(r) ==
    /\ pc[r] = "settled"
    /\ LET req == request[r]
           paymentConfig == buildPaymentConfig(req)
           res == result[r]
       IN  IF res.kind = "threw" /\ ~rethrowsSettlementError
           THEN /\ settleCalls' = [settleCalls EXCEPT
                                     ![r] = Append(@, settleArguments(
                                                          req, paymentConfig))]
                /\ pc' = [pc EXCEPT ![r] = "awaitSettle"]
                /\ UNCHANGED response
           ELSE /\ response' = [response EXCEPT ![r] =
                     IF res.kind = "threw"
                     THEN verificationErrorResponse(res.message, paymentConfig)
                     ELSE IF ~settlementSucceeded(res)
                          THEN settlementFailedResponse(res)
                          ELSE serveVideo(fileState, paymentConfig)]
                /\ pc' = [pc EXCEPT ![r] = "done"]
                /\ UNCHANGED settleCalls
    /\ UNCHANGED <<env, fileState, request, result, consumed, moved>>
    /\ UNCHANGED <<clientVars, proxyVars>>

Next == \E r \in Requests : GET(r) \/ settlePayment(r) \/ GETResume(r)

Spec == Init /\ [][Next]_vars

(***************************************************************************)
(* Properties of the Resource Guard                                        *)
(***************************************************************************)
Done(r) == pc[r] = "done"

\* the requirements GET derives for request r
RequirementsOf(r) == buildPaymentConfig(request[r]).x402Requirements

\* C1: a request is answered 200 only if it carried an X-PAYMENT header and
\* the settlePayment call made while handling it returned status 200; never
\* without a proof, after a rejection, or after settlePayment threw.
C1_GrantOnlyAfterSettlement ==
    \A r \in Requests :
        response[r].status = 200 =>
            /\ Truthy(request[r].xPayment)
            /\ Len(settleCalls[r]) >= 1
            /\ settleCalls[r][1].paymentData = request[r].xPayment
            /\ result[r].kind = "returned"
            /\ result[r].status = 200

C1_Witness ==
    \E r \in Requests :
        /\ response[r].status = 200
        /\ response[r].body = [videoBuffer |-> "video bytes"]

C3_ChallengeTouchesNoMoney ==
    \A r \in Requests :
        ~Truthy(request[r].xPayment) =>
            /\ settleCalls[r] = <<>>
            /\ result[r] = NoResult

C3_Witness ==
    \E r, q \in Requests :
        /\ Done(r)
        /\ request[r].xPayment = NoHeader
        /\ response[r].status = 402
        /\ q < r
        /\ request[q].xPayment \in ProofHeaders
        /\ moved[request[q].xPayment] = 1

\* C4: while handling one request the Resource Guard calls settlePayment at
\* most once, also after the call failed or threw.
C4_SettleAtMostOncePerRequest ==
    \A r \in Requests : Len(settleCalls[r]) <= 1

C4_Witness ==
    \E r \in Requests :
        /\ Done(r)
        /\ result[r].kind = "threw"
        /\ Len(settleCalls[r]) = 1

\* C5: with a facilitator that remembers settled proofs, the same valid proof
\* presented in two requests moves funds at most once: of two requests with
\* one proof at most one is answered 200, and when one settlement succeeded
\* the other is reported already settled, or fails otherwise.
C5_ProofSettlesOnce ==
    /\ \A h \in ProofHeaders : moved[h] <= 1
    /\ \A r, q \in Requests :
         (r # q /\ Truthy(request[r].xPayment)
                /\ request[r].xPayment = request[q].xPayment) =>
            /\ ~(response[r].status = 200 /\ response[q].status = 200)
            /\ (result[r].status = 200 /\ result[q].kind = "returned") =>
                   /\ result[q].status # 200
                   /\ result[q].responseBody # Undefined =>
                          result[q].responseBody.error = "already_settled"
                   /\ Done(q) => response[q].status # 200

C5_Witness ==
    \E r, q \in Requests :
        /\ r # q
        /\ request[r].xPayment = "proofA"
        /\ request[q].xPayment = "proofA"
        /\ response[r].status = 200
        /\ Done(q)
        /\ response[q].status = 402
        /\ "error" \in DOMAIN response[q].body
        /\ response[q].body.error = "already_settled"
        /\ moved["proofA"] = 1

\* C6: whenever the facilitator reported a successful settlement for a
\* request, the request is answered 200 with the resource bytes, the mimeType
\* of the challenge as Content-Type and X-Payment-Verified: true.
C6_SettledIsServed ==
    \A r \in Requests :
        (Done(r) /\ result[r].kind = "returned" /\ result[r].status = 200) =>
            /\ response[r].status = 200
            /\ response[r].body = [videoBuffer |-> "video bytes"]
            /\ response[r].headers["Content-Type"] = RequirementsOf(r).mimeType
            /\ "X-Payment-Verified" \in DOMAIN response[r].headers
            /\ response[r].headers["X-Payment-Verified"] = "true"

\* the merchant address or a facilitator credential is not configured
ConfigurationMissing ==
    \/ ~Truthy(env.MERCHANT_ADDRESS)
    \/ ~Truthy(env.THIRDWEB_SECRET_KEY)
    \/ ~Truthy(env.THIRDWEB_VAULT_ACCESS_TOKEN)

\* C7: when required configuration is missing, every request, with a proof
\* header or without, is answered 500, and no 402 is issued.
C7_MissingConfigurationIs500 ==
    \A r \in Requests :
        (Done(r) /\ ConfigurationMissing) => response[r].status = 500

\* C8: a 500 is answered only for configuration faults: under a complete
\* configuration no request is answered 500, also not after a successful
\* settlement.
C8_Only500ForConfiguration ==
    \A r \in Requests :
        response[r].status = 500 => ConfigurationMissing

\* the codes the facilitator gives for a rejected proof
RejectionCodes ==
    {"invalid_signature", "amount_mismatch", "expired", "already_settled",
     "network_mismatch", "resource_mismatch", "recipient_mismatch"}

BindingFields == {"resource", "network", "asset", "payTo", "maxAmountRequired"}

\* C9: when the facilitator reports the proof invalid, the answer is 402 with
\* an accepts array holding the current requirements and an error code that
\* tells the reasons of rejection apart.
C9_RejectionIsCoded402 ==
    \A r \in Requests :
        (Done(r) /\ result[r].kind = "returned" /\ result[r].status # 200) =>
            LET body == response[r].body
            IN  /\ response[r].status = 402
                /\ "accepts" \in DOMAIN body
                /\ Len(body.accepts) = 1
                /\ \A k \in BindingFields :
                       body.accepts[1][k] = RequirementsOf(r)[k]
                /\ "error" \in DOMAIN body
                /\ body.error \in RejectionCodes

\* C10: when the call to the facilitator throws, the answer is 402 with the
\* error code verification_unavailable, which is none of the rejection codes.
C10_TransportFailureCode ==
    \A r \in Requests :
        (Done(r) /\ result[r].kind = "threw") =>
            /\ response[r].status = 402
            /\ response[r].body.error = "verification_unavailable"
            /\ response[r].body.error \notin RejectionCodes

\* The fields of a settlePayment call that say what must be paid, for what
\* and to whom; paymentData is the client's part of the call
RequirementFields ==
    {"resourceUrl", "method", "payTo", "network", "price", "facilitator",
     "routeConfig"}

LocalOrigin == <<"http://localhost:3000">>

UrlShapes ==
    {PremiumUrl,
     PremiumSlashQueryUrl,
     [origin |-> Origin, pathname |-> <<"/", "api", "/", "premium">>,
      search |-> <<"?", "retry=1">>],
     [origin |-> Origin, pathname |-> <<"/", "api", "/", "premium", "/", "/">>,
      search |-> <<>>],
     [origin |-> Origin, pathname |-> <<"/">>, search |-> <<"?", "retry=1">>],
     [origin |-> LocalOrigin, pathname |-> <<"/", "api", "/", "premium", "/">>,
      search |-> <<>>]}

InitUrlShapes ==
    /\ env \in {e \in Environments : /\ e.MERCHANT_ADDRESS # Unset
                                     /\ e.THIRDWEB_SECRET_KEY # Unset
                                     /\ e.THIRDWEB_VAULT_ACCESS_TOKEN # Unset}
    /\ fileState = "present"
    /\ request = [r \in Requests |-> NoRequest]
    /\ pc = [r \in Requests |-> "unsent"]
    /\ settleCalls = [r \in Requests |-> <<>>]
    /\ result = [r \in Requests |-> NoResult]
    /\ response = [r \in Requests |-> NoResponse]
    /\ consumed = {}
    /\ moved = [h \in ProofHeaders |-> 0]
    /\ ClientAtRest
    /\ ProxyAtRest

GETUrlShape(r) == GETFrom(r, Requests, UrlShapes, {NoHeader, "proofA"})

NextUrlShapes ==
    \E r \in Requests : GETUrlShape(r) \/ settlePayment(r) \/ GETResume(r)

SpecUrlShapes == InitUrlShapes /\ [][NextUrlShapes]_vars

\* the last token of a pathname is a slash
EndsWithSlash(toks) == Len(toks) > 0 /\ toks[Len(toks)] = "/"

\* C13: the resource of a 402 challenge, at the root of the body and in
\* accepts[0], is the origin and path of the request that was made: put
\* back the one trailing slash the path had and it reads origin + pathname;
\* nothing of the query string is in it.
C13_ChallengeResourceIsCanonicalUrl ==
    \A r \in Requests :
        Done(r) /\ request[r].xPayment = NoHeader
        => LET url == request[r].url
               slash == IF EndsWithSlash(url.pathname) THEN <<"/">> ELSE <<>>
           IN  /\ response[r].status = 402
               /\ response[r].body.resource \o slash = url.origin \o url.pathname
               /\ response[r].body.accepts[1].resource \o slash
                     = url.origin \o url.pathname
               /\ ~EndsWithSlash(url.pathname)
                     => response[r].body.resource = url.origin \o url.pathname

C13_Witness ==
    \E r, q \in Requests :
        /\ Done(r)
        /\ Done(q)
        /\ request[r].xPayment = NoHeader
        /\ request[q].xPayment = NoHeader
        /\ request[r].url = PremiumSlashQueryUrl
        /\ request[q].url.origin = LocalOrigin
        /\ response[r].body.resource = Origin \o <<"/", "api", "/", "premium">>
        /\ response[q].body.resource = LocalOrigin \o <<"/", "api", "/", "premium">>

(***************************************************************************)
(* Overlapping handlings: one more handling than Spec runs, all for the    *)
(* premium URL, without a proof, with a valid one or with a forged one.    *)
(***************************************************************************)
Handlings == 1..(MaxRequests + 1)

InitConcurrent ==
    /\ env \in {e \in Environments : /\ e.MERCHANT_ADDRESS # Unset
                                     /\ e.THIRDWEB_SECRET_KEY # Unset
                                     /\ e.THIRDWEB_VAULT_ACCESS_TOKEN # Unset}
    /\ fileState = "present"
    /\ request = [r \in Handlings |-> NoRequest]
    /\ pc = [r \in Handlings |-> "unsent"]
    /\ settleCalls = [r \in Handlings |-> <<>>]
    /\ result = [r \in Handlings |-> NoResult]
    /\ response = [r \in Handlings |-> NoResponse]
    /\ consumed = {}
    /\ moved = [h \in ProofHeaders |-> 0]
    /\ ClientAtRest
    /\ ProxyAtRest

GETConcurrent(r) == GETFrom(r, Handlings, {PremiumUrl}, {NoHeader, "proofA", "forged"})

NextConcurrent ==
    \E r \in Handlings : GETConcurrent(r) \/ settlePayment(r) \/ GETResume(r)

SpecConcurrent == InitConcurrent /\ [][NextConcurrent]_vars

C15_SettlementResourceIsChallengeResource ==
    \A r, q \in Requests :
        /\ Done(r)
        /\ ~Truthy(request[r].xPayment)
        /\ Len(settleCalls[q]) > 0
        /\ request[q].url = request[r].url
        => /\ settleCalls[q][1].resourceUrl = response[r].body.resource
           /\ settleCalls[q][1].resourceUrl = response[r].body.accepts[1].resource

\* challenge and paid retry at a URL with a trailing slash and a query string
C15_Witness ==
    \E r, q \in Requests :
        /\ r < q
        /\ request[r].url = PremiumSlashQueryUrl
        /\ request[q].url = PremiumSlashQueryUrl
        /\ request[r].xPayment = NoHeader
        /\ response[r].status = 402
        /\ request[q].xPayment = "proofA"
        /\ settleCalls[q][1].resourceUrl = response[r].body.resource
        /\ Done(q)
        /\ response[q].status = 200

\* C16: a signed proof bound to another resource than the one requested is
\* never answered 200; once the facilitator has answered, the response is 402
\* with the error code resource_mismatch.
C16_OtherResourceProofRefused ==
    \A r \in Requests :
        /\ Done(r)
        /\ request[r].xPayment \in ProofHeaders
        /\ ProofTable(request[r].xPayment).signed
        /\ ProofBinding(request[r].xPayment).resource # RequirementsOf(r).resource
        /\ result[r].kind = "returned"
        => /\ response[r].status # 200
           /\ response[r].status = 402
           /\ "error" \in DOMAIN response[r].body
           /\ response[r].body.error = "resource_mismatch"

\* C17: with PAYMENT_AMOUNT unset, a 402 challenge names 100000 atomic units
\* and the USDC contract of the configured network (Base when
\* NEXT_PUBLIC_NETWORK is unset, Base Sepolia when it is base-sepolia), at
\* the root of the body and in accepts[0].
C17_DefaultAmountAndAsset ==
    \A r \in Requests :
        Done(r) /\ ~Truthy(request[r].xPayment) /\ env.PAYMENT_AMOUNT = <<>>
        => LET usdc == IF env.NEXT_PUBLIC_NETWORK = Unset
                       THEN "0x833589fCD6eDb6E08f4c7C32D4f71b54bdA02913"
                       ELSE "0x036CbD53842c5426634e7929541eC2318f3dCF7e"
               body == response[r].body
           IN  /\ response[r].status = 402
               /\ body.maxAmountRequired = <<1, 0, 0, 0, 0, 0>>
               /\ body.accepts[1].maxAmountRequired = <<1, 0, 0, 0, 0, 0>>
               /\ body.asset = usdc
               /\ body.accepts[1].asset = usdc

C17_Witness ==
    \E r \in Requests :
        /\ Done(r)
        /\ request[r].xPayment = NoHeader
        /\ env.PAYMENT_AMOUNT = <<>>
        /\ env.NEXT_PUBLIC_NETWORK = "base-sepolia"
        /\ response[r].body.accepts[1].maxAmountRequired = <<1, 0, 0, 0, 0, 0>>
        /\ response[r].body.asset = USDC_SEPOLIA

(***************************************************************************)
(* The client page (src/unnamed/part_000, Home).  A handler runs from the  *)
(* click to its first await in one step and resumes when the awaited call  *)
(* settles; what it reads of the wallet and of paymentInfo is what the     *)
(* render that created it had, kept in run.                                *)
(***************************************************************************)
\* JSON on the wire.  NextResponse.json(body) sends JSON.stringify(body) and
\* response.json() hands JSON.parse of it to the page.  The text is kept as
\* its members: a number is written as its decimal digits and read back with
\* them, a member whose value is undefined is not written, objects and
\* arrays are written member by member.  What a key holds is told by its name.
JsonNumbers == {"x402Version", "maxTimeoutSeconds"}

JsonObjects ==
    {"extra", "payment", "x402Requirements", "purchaseDetails", "data",
     "instructions"}

JsonArrays == {"accepts"}

\* strings that the model holds as token sequences or records
JsonTexts == {"maxAmountRequired", "resource", "amount", "displayAmount"}

JsonLiterals == {"settled"}

\* an encoder that leaves out the member named extra
JsonMembersWithoutExtra(object) == DOMAIN object \ {"extra"}

\* the members JSON.stringify writes: those whose value is not undefined
JsonMembers(object) ==
    {k \in DOMAIN object :
        k \notin JsonNumbers \cup JsonObjects \cup JsonArrays \cup JsonTexts
                  \cup JsonLiterals
        => object[k] # Unset}

RECURSIVE JSONstringify(_)
JSONstringify(object) ==
    [k \in JsonMembers(object) |->
        CASE k \in JsonNumbers -> [json |-> "number", text |-> Digits(object[k])]
          [] k \in JsonObjects ->
                [json |-> "object", text |-> JSONstringify(object[k])]
          [] k \in JsonArrays ->
                [json |-> "array",
                 text |-> [i \in DOMAIN object[k] |-> JSONstringify(object[k][i])]]
          [] k \in JsonLiterals -> [json |-> "literal", text |-> object[k]]
          [] OTHER -> [json |-> "string", text |-> object[k]]]

RECURSIVE JSONparse(_)
JSONparse(text) ==
    [k \in DOMAIN text |->
        CASE text[k].json = "number" -> parseInt(text[k].text)
          [] text[k].json = "object" -> JSONparse(text[k].text)
          [] text[k].json = "array" ->
                [i \in DOMAIN text[k].text |-> JSONparse(text[k].text[i])]
          [] OTHER -> text[k].text]

\* await response.json() on a response whose body is JSON
json(resp) == JSONparse(JSONstringify(resp.body))

\* response.ok
ok(resp) == resp.status \in 200..299

\* response.json() parses the body instead of throwing
isJson(resp) ==
    /\ "Content-Type" \in DOMAIN resp.headers
    /\ resp.headers["Content-Type"] = "application/json"

JsonSyntaxError == <<"Unexpected token '<', \"<!DOCTYPE \"... is not valid JSON">>

\* every status of 400 and above is read as a payment challenge
isChallengeAnyError(resp) == resp.status >= 400

\* part_000 103: if (response.status === 402)
isChallenge(resp) == resp.status = 402

\* part_000 108: data.payment || {}
paymentOf(data) == IF "payment" \in DOMAIN data THEN data.payment ELSE EmptyHeaders

\* part_000 110: payment.x402Requirements is there
hasRequirements(payment) == "x402Requirements" \in DOMAIN payment

\* a field of an object, Unset when it is absent
Get(object, key) == IF key \in DOMAIN object THEN object[key] ELSE Unset

\* part_000 114-124: { ...payment, amount, token, recipient, network, scheme,
\* x402Requirements }; amount is a string of digits, empty when absent
normalizePayment(payment) ==
    [amount |-> IF "amount" \in DOMAIN payment THEN payment.amount ELSE <<>>,
     token |-> OrElse(Get(payment, "token"), ""),
     recipient |-> OrElse(Get(payment, "recipient"), ""),
     network |-> OrElse(Get(payment, "network"), ""),
     scheme |-> OrElse(Get(payment, "scheme"), "exact"),
     x402Requirements |-> payment.x402Requirements]
    @@ payment

InvalidChallengeMessage ==
    <<"Invalid 402 response: x402Requirements missing. This endpoint requires proper x402 payment flow.">>

\* `Unexpected status: ${response.status}`
UnexpectedStatusMessage(resp) == <<"Unexpected status: ", resp.status>>

\* What /api/premium, or whatever stands before it, can answer to the first
\* fetch: the Resource Guard's challenge, a 402 whose payment lacks the
\* requirements, a 402 without payment, content, and failures
ServedChallenge ==
    Json(challengeBody(buildPaymentConfig([url |-> PremiumUrl,
                                           xPayment |-> NoHeader])),
         402, EmptyHeaders)

\* the same from a development server on localhost
ServedChallengeLocal ==
    Json(challengeBody(buildPaymentConfig(
             [url |-> [PremiumUrl EXCEPT !.origin = <<"http://localhost:3000">>],
              xPayment |-> NoHeader])),
         402, EmptyHeaders)

\* route.js 129-187: the 402 of the earlier GET kept in the same file.  The
\* display network is base:<chainId>, the requirements' network
\* eip155:<chainId>; NETWORK is compared as written.
EarlierChallenge ==
    LET isMainnet == NETWORK = "base" \/ NETWORK = "base:8453"
        usdcAddress == IF isMainnet THEN USDC_ADDRESSES["base"]
                                    ELSE USDC_ADDRESSES["base-sepolia"]
        resourceUrl == stripTrailingSlash(PremiumUrl.origin \o PremiumUrl.pathname)
    IN  Json([message |-> "Payment required to access this resource.",
              payment |->
                  [scheme |-> "exact",
                   network |-> IF isMainnet THEN "base:8453" ELSE "base:84532",
                   token |-> usdcAddress,
                   recipient |-> MERCHANT_ADDRESS,
                   amount |-> Digits(PAYMENT_AMOUNT),
                   displayAmount |-> toFixed6(PAYMENT_AMOUNT),
                   networkName |-> IF isMainnet THEN "Base" ELSE "Base Sepolia",
                   description |-> "Access to premium video content",
                   x402Requirements |->
                       [scheme |-> "exact",
                        network |-> IF isMainnet THEN "eip155:8453"
                                                 ELSE "eip155:84532",
                        maxAmountRequired |-> Digits(PAYMENT_AMOUNT),
                        resource |-> resourceUrl,
                        description |-> "Access to premium video content",
                        mimeType |-> "video/mp4",
                        payTo |-> MERCHANT_ADDRESS,
                        maxTimeoutSeconds |-> 86400,
                        asset |-> usdcAddress]],
              instructions |->
                  [step1 |-> "Connect your wallet to Base Sepolia network",
                   step2 |-> "Ensure you have USDC test tokens",
                   step3 |-> "Approve and send payment transaction",
                   step4 |-> "Get payment proof from facilitator",
                   step5 |-> "Retry request with X-PAYMENT header"]],
             402, EmptyHeaders)

\* an object without one of its keys
Without(object, key) == [k \in DOMAIN object \ {key} |-> object[k]]

\* the fields of PaymentRequirements that a proof cannot be built without
RequiredFields ==
    {"resource", "network", "asset", "payTo", "maxAmountRequired", "scheme"}

\* the names in use for the two networks, in more than one letter case
SepoliaIdentifiers ==
    {"base-sepolia", "base:84532", "eip155:84532", "Base-Sepolia", "EIP155:84532"}

MainnetIdentifiers ==
    {"base", "base:8453", "eip155:8453", "BASE", "EIP155:8453"}

\* a 402 of the Guard's shape around other requirements
ChallengeOf(requirements) ==
    Json([x402Version |-> 1,
          accepts |-> <<requirements>>,
          payment |-> [x402Requirements |-> requirements]
                      @@ ServedChallenge.body.payment],
         402, EmptyHeaders)

\* challenges whose requirements lack a field, and challenges that name the
\* network in another of its forms
IncompleteChallenges ==
    {ChallengeOf(Without(ServedChallenge.body.payment.x402Requirements, f)) :
        f \in RequiredFields}

RenamedChallenges ==
    {ChallengeOf([ServedChallenge.body.payment.x402Requirements
                     EXCEPT !.network = n]) :
        n \in {"base:84532", "eip155:84532", "EIP155:84532",
               "base:8453", "eip155:8453", "BASE"}}

InitialAnswers ==
    IncompleteChallenges \cup RenamedChallenges \cup
    {ServedChallenge,
     ServedChallengeLocal,
     EarlierChallenge,
     Json([error |-> "Payment Required",
           payment |-> [amount |-> <<1, 0, 0, 0, 0, 0>>, network |-> "base:8453"]],
          402, EmptyHeaders),
     Json([error |-> "Payment Required"], 402, EmptyHeaders),
     [status |-> 402, headers |-> ("Content-Type" :> "text/html"),
      body |-> [html |-> "Payment Required"]],
     Json([access |-> "granted"], 200, EmptyHeaders),
     [status |-> 200, headers |-> ("Content-Type" :> "text/html"),
      body |-> [html |-> "Premium"]],
     Json([error |-> "Unauthorized"], 401, EmptyHeaders),
     Json([error |-> "Not found"], 404, EmptyHeaders),
     configurationErrorResponse("Payment system not configured."),
     [status |-> 503, headers |-> ("Content-Type" :> "text/html"),
      body |-> [html |-> "Service Unavailable"]]}

\* fetch rejects
FetchErrors == {<<"Failed to fetch">>}

\* part_000 92-100: handleAccessContent up to await fetch('/api/premium');
\* its button is rendered in status idle (388-397)
handleAccessContent ==
    /\ status = "idle"
    /\ status' = "loading"
    /\ error' = NoError
    /\ step' = 1
    /\ run' = [NoRun EXCEPT !.handler = "access", !.at = "fetch"]
    /\ UNCHANGED <<paymentInfo, content, wallet>>
    /\ UNCHANGED <<page, serverVars, proxyVars>>

\* part_000 100-147: the fetch settles and handleAccessContent runs to its end
handleAccessContentResume ==
    /\ run.handler = "access"
    /\ run.at = "fetch"
    /\ \/ \E message \in FetchErrors :
             /\ error' = message
             /\ status' = "error"
             /\ run' = [run EXCEPT !.at = "end"]
             /\ UNCHANGED <<paymentInfo, content, step>>
       \/ \E resp \in InitialAnswers :
             /\ run' = [run EXCEPT !.at = "end", !.initial = resp]
             /\ IF isChallenge(resp)
                THEN IF ~isJson(resp)
                     THEN /\ error' = JsonSyntaxError
                          /\ status' = "error"
                          /\ UNCHANGED <<paymentInfo, content, step>>
                     ELSE IF ~hasRequirements(paymentOf(json(resp)))
                     THEN /\ error' = InvalidChallengeMessage
                          /\ status' = "error"
                          /\ UNCHANGED <<paymentInfo, content, step>>
                     ELSE /\ paymentInfo' = normalizePayment(paymentOf(json(resp)))
                          /\ status' = "payment-required"
                          /\ step' = 2
                          /\ UNCHANGED <<content, error>>
                ELSE IF ok(resp)
                THEN IF ~isJson(resp)
                     THEN /\ error' = JsonSyntaxError
                          /\ status' = "error"
                          /\ UNCHANGED <<paymentInfo, content, step>>
                     ELSE /\ content' = json(resp)
                          /\ status' = "success"
                          /\ step' = 5
                          /\ UNCHANGED <<paymentInfo, error>>
                ELSE /\ error' = UnexpectedStatusMessage(resp)
                     /\ status' = "error"
                     /\ UNCHANGED <<paymentInfo, content, step>>
    /\ UNCHANGED wallet
    /\ UNCHANGED <<page, serverVars, proxyVars>>

\* a reset button that is rendered in every status
handleResetInEveryStatus ==
    /\ status' = "idle"
    /\ paymentInfo' = Null
    /\ content' = Null
    /\ error' = NoError
    /\ step' = 0
    /\ run' = [NoRun EXCEPT !.handler = "reset"]
    /\ UNCHANGED wallet
    /\ UNCHANGED <<page, serverVars, proxyVars>>

\* part_000 338-344: handleReset; its button is rendered with the payment
\* panel, with the content and with the error
handleReset ==
    /\ \/ status = "payment-required" /\ paymentInfo # Null
       \/ status = "success" /\ content # Null
       \/ status = "error"
    /\ status' = "idle"
    /\ paymentInfo' = Null
    /\ content' = Null
    /\ error' = NoError
    /\ step' = 0
    /\ run' = [NoRun EXCEPT !.handler = "reset"]
    /\ UNCHANGED wallet
    /\ UNCHANGED <<page, serverVars, proxyVars>>

(***************************************************************************)
(* The wallet behind the wagmi hooks.  The user's wallet connects and      *)
(* changes chain when the user confirms the request it shows, whenever     *)
(* that is; switchChain and connect of useSwitchChain and useConnect hand  *)
(* the request to the wallet.                                              *)
(***************************************************************************)
\* the chains a wallet can be on: Ethereum, Base, Base Sepolia
WalletChains == {1, base.id, baseSepolia.id}

Wallets ==
    {DisconnectedWallet}
    \cup {[DisconnectedWallet EXCEPT !.isConnected = TRUE, !.chainId = c] :
            c \in WalletChains}

\* the user confirms the connection
WalletConnects ==
    /\ wallet.pendingConnect
    /\ \E c \in WalletChains :
          wallet' = [wallet EXCEPT !.isConnected = TRUE, !.chainId = c,
                                   !.pendingConnect = FALSE]
    /\ UNCHANGED <<status, paymentInfo, content, error, step, run>>
    /\ UNCHANGED <<page, serverVars, proxyVars>>

\* the user dismisses the connection request
WalletRefusesConnection ==
    /\ wallet.pendingConnect
    /\ wallet' = [wallet EXCEPT !.pendingConnect = FALSE, !.connectRejected = TRUE]
    /\ UNCHANGED <<status, paymentInfo, content, error, step, run>>
    /\ UNCHANGED <<page, serverVars, proxyVars>>

\* the user confirms the change of chain
WalletSwitches ==
    /\ wallet.isConnected
    /\ wallet.pendingSwitch # 0
    /\ wallet' = [wallet EXCEPT !.chainId = wallet.pendingSwitch,
                                !.pendingSwitch = 0]
    /\ UNCHANGED <<status, paymentInfo, content, error, step, run>>
    /\ UNCHANGED <<page, serverVars, proxyVars>>

\* the user rejects the change of chain, or the wallet cannot make it
WalletRefusesSwitch ==
    /\ wallet.pendingSwitch # 0
    /\ wallet' = [wallet EXCEPT !.pendingSwitch = 0, !.switchRejected = TRUE]
    /\ UNCHANGED <<status, paymentInfo, content, error, step, run>>
    /\ UNCHANGED <<page, serverVars, proxyVars>>

(***************************************************************************)
(* handleProcessPayment (part_000 163-336)                                 *)
(***************************************************************************)
\* String.prototype.includes on the network identifiers in use
includes(s, sub) ==
    CASE sub = "84532" -> s \in {"base:84532", "eip155:84532", "84532",
                                 "Base:84532", "EIP155:84532"}
      [] sub = "8453" -> s \in {"base:8453", "eip155:8453", "8453",
                                "Base:8453", "EIP155:8453",
                                "base:84532", "eip155:84532", "84532",
                                "Base:84532", "EIP155:84532"}
      [] sub = "video/mp4" -> s = "video/mp4"
      [] OTHER -> s = sub

\* part_000 54-71
normalizeNetworkForSdk(network) ==
    IF ~Truthy(network) THEN network
    ELSE LET value == toLowerCase(network)
         IN  IF value = "base" \/ value = "base-sepolia" THEN value
             ELSE IF includes(value, "8453") THEN "base"
             ELSE IF includes(value, "84532") THEN "base-sepolia"
             ELSE value

\* part_000 184-187: the chain to be on, from the display network
targetNetwork(info) ==
    LET networkString == OrElse(Get(info, "network"), "base:84532")
    IN  IF \/ networkString = "base:84532"
           \/ includes(networkString, "84532")
           \/ networkString = "base-sepolia"
        THEN baseSepolia
        ELSE base

SwitchMessage(target) ==
    <<"Please switch to ", target.name, " network in your wallet and try again.">>

WalletClientMessage ==
    <<"Wallet client not available. Please try connecting your wallet again.">>

\* the requirements written out again field by field, without extra
requirementsRebuilt(paymentRequirements) ==
    [network |-> normalizeNetworkForSdk(Get(paymentRequirements, "network"))]
    @@ Without(paymentRequirements, "extra")

\* part_000 233-236: { ...paymentRequirements, network: normalized }
requirementsForCreation(paymentRequirements) ==
    [network |-> normalizeNetworkForSdk(Get(paymentRequirements, "network"))]
    @@ paymentRequirements

\* part_000 201-255: from the wallet client check to the call of
\* createPaymentHeader; the run r ends in error or waits for the signature.
\* signerChainId is the chain the wallet is on when the builder is called.
BuildProof(r) ==
    IF r.walletClient = 0
    THEN /\ error' = WalletClientMessage
         /\ status' = "error"
         /\ step' = 3
         /\ run' = [r EXCEPT !.at = "end"]
    ELSE IF ~hasRequirements(r.paymentInfo)
    THEN /\ error' = <<"Payment requirements not found in API response.">>
         /\ status' = "error"
         /\ step' = 4
         /\ run' = [r EXCEPT !.at = "end"]
    ELSE IF \/ "resource" \notin DOMAIN r.paymentInfo.x402Requirements
            \/ r.paymentInfo.x402Requirements.resource = <<>>
    THEN /\ error' = <<"Payment requirements missing resource field.">>
         /\ status' = "error"
         /\ step' = 4
         /\ run' = [r EXCEPT !.at = "end"]
    ELSE /\ status' = "processing"
         /\ step' = 4
         /\ run' = [r EXCEPT
                      !.at = "sign",
                      !.built = [walletClient |-> r.walletClient,
                                 x402Version |-> 1,
                                 paymentRequirements |->
                                     requirementsForCreation(
                                         r.paymentInfo.x402Requirements),
                                 facilitatorUrl |-> "https://x402.org/facilitator",
                                 held |-> r.paymentInfo.x402Requirements,
                                 signerChainId |-> wallet.chainId]]
         /\ UNCHANGED error

\* part_000 181-199 up to await switchChain, then on as BuildProof
EnsureNetwork(r) ==
    LET target == targetNetwork(r.paymentInfo)
    IN  IF r.chainId # target.id
        THEN /\ status' = "processing"
             /\ error' = NoError
             /\ step' = 3
             /\ run' = [r EXCEPT !.at = "switchWait", !.switchAsked = TRUE]
             /\ wallet' = [wallet EXCEPT !.pendingSwitch = target.id,
                                         !.switchRejected = FALSE]
        ELSE /\ BuildProof(r)
             /\ UNCHANGED wallet

\* a Process Payment button that is also rendered with the error
handleProcessPaymentAlsoInError ==
    /\ page = "part_000"
    /\ status \in {"payment-required", "error"}
    /\ paymentInfo # Null
    /\ LET r == [NoRun EXCEPT !.handler = "pay",
                              !.isConnected = wallet.isConnected,
                              !.chainId = wallet.chainId,
                              !.walletClient = wallet.chainId,
                              !.paymentInfo = paymentInfo]
       IN  IF ~r.isConnected
           THEN /\ status' = "processing"
                /\ step' = 3
                /\ run' = [r EXCEPT !.at = "connectWait"]
                /\ wallet' = [wallet EXCEPT !.pendingConnect = TRUE,
                                            !.connectRejected = FALSE]
                /\ UNCHANGED error
           ELSE EnsureNetwork(r)
    /\ UNCHANGED <<paymentInfo, content>>
    /\ UNCHANGED <<page, serverVars, proxyVars>>

\* part_000 163-179: the click on Process Payment, rendered with the payment
\* panel (status payment-required and paymentInfo held); the handler reads
\* isConnected, chainId, walletClient and paymentInfo of that render
handleProcessPayment ==
    /\ page = "part_000"
    /\ status = "payment-required"
    /\ paymentInfo # Null
    /\ LET r == [NoRun EXCEPT !.handler = "pay",
                              !.isConnected = wallet.isConnected,
                              !.chainId = wallet.chainId,
                              !.walletClient = wallet.chainId,
                              !.paymentInfo = paymentInfo]
       IN  IF ~r.isConnected
           THEN /\ status' = "processing"
                /\ step' = 3
                /\ run' = [r EXCEPT !.at = "connectWait"]
                /\ wallet' = [wallet EXCEPT !.pendingConnect = TRUE,
                                            !.connectRejected = FALSE]
                /\ UNCHANGED error
           ELSE EnsureNetwork(r)
    /\ UNCHANGED <<paymentInfo, content>>
    /\ UNCHANGED <<page, serverVars, proxyVars>>

\* part_000 173-199: connect has returned and the second has passed; a
\* refused connection may have made connect throw
handleProcessPaymentConnected ==
    /\ page = "part_000"
    /\ run.handler = "pay"
    /\ run.at = "connectWait"
    /\ \/ /\ wallet.connectRejected
          /\ error' = <<"User rejected the request.">>
          /\ status' = "error"
          /\ run' = [run EXCEPT !.at = "end"]
          /\ UNCHANGED <<step, wallet>>
       \/ EnsureNetwork(run)
    /\ UNCHANGED <<paymentInfo, content>>
    /\ UNCHANGED <<page, serverVars, proxyVars>>

\* part_000 192-255: switchChain has returned and the two seconds have
\* passed, or switchChain threw.  switchChain of useSwitchChain hands the
\* request to the wallet and returns; the wallet may have switched, may have
\* refused, or may still be asking the user.
handleProcessPaymentSwitched ==
    /\ page = "part_000"
    /\ run.handler = "pay"
    /\ run.at = "switchWait"
    /\ \/ /\ wallet.switchRejected
          /\ error' = SwitchMessage(targetNetwork(run.paymentInfo))
          /\ status' = "error"
          /\ run' = [run EXCEPT !.at = "end"]
          /\ UNCHANGED step
       \/ BuildProof(run)
    /\ UNCHANGED <<paymentInfo, content, wallet>>
    /\ UNCHANGED <<page, serverVars, proxyVars>>

\* page.js 419: apiError.message || fallbackError.message
shownMessage(apiError, fallbackError) ==
    IF apiError # <<>> THEN apiError ELSE fallbackError

\* the header createPaymentHeader returns: the proof signed over the
\* requirements it was given
signedHeader(built) ==
    IF built.paymentRequirements.resource = ServedChallenge.body.resource
    THEN "proofA"
    ELSE "proofOther"

\* part_000 250-265, page.js 344-358: createPaymentHeader settles: it rejects
\* when the user closes or rejects the wallet's signature request (the run
\* is then marked cancelled), or it returns the header and the retry is sent.  In page.js a rejection is caught by
\* catch (fallbackError), which shows apiError's message first.
createPaymentHeader ==
    /\ run.handler = "pay"
    /\ run.at = "sign"
    /\ \/ /\ error' = IF page = "page.js"
                         THEN shownMessage(run.apiError, <<"User rejected the request.">>)
                         ELSE <<"User rejected the request.">>
          /\ status' = "error"
          /\ run' = [run EXCEPT !.at = "end", !.cancelled = TRUE]
       \/ /\ run' = [run EXCEPT !.at = "retry",
                                !.sentProofs = Append(@, signedHeader(run.built))]
          /\ UNCHANGED <<status, error>>
    /\ UNCHANGED <<paymentInfo, content, step, wallet>>
    /\ UNCHANGED <<page, serverVars, proxyVars>>

\* What /api/premium can answer to the retry: the video, other content, the
\* Guard's refusals with and without accepts, and failures
RetryAnswers ==
    LET paymentConfig == buildPaymentConfig([url |-> PremiumUrl,
                                             xPayment |-> "proofA"])
    IN  {serveVideo("present", paymentConfig),
         Json([access |-> "granted"], 200, EmptyHeaders),
         verificationErrorResponse("The operation was aborted due to timeout",
                                   paymentConfig),
         Json([error |-> "Payment verification failed"], 402, EmptyHeaders),
         Json([x402Version |-> 1,
               error |-> "invalid_exact_evm_payload_signature",
               accepts |-> <<[paymentConfig.x402Requirements
                                 EXCEPT !.network = "eip155:8453"]>>],
              402, EmptyHeaders),
         Json([error |-> "already_settled", accepts |-> <<>>], 402, EmptyHeaders),
         serveVideo("missing", paymentConfig)}

\* part_000 295-300
retryErrorMessage(data) ==
    IF OrElse(Get(data, "error"), Get(data, "errorReason"))
          = "invalid_exact_evm_payload_signature"
    THEN "Facilitator rejected the payment signature. Refresh the payment request and re-sign in your wallet."
    ELSE OrElse(Get(data, "errorMessage"),
                OrElse(Get(data, "message"), "Payment verification failed"))

\* an updater that keeps what is held whatever the answer carries
refreshedPaymentInfoKept(prev, data) == prev

\* part_000 303-326: the updater given to setPaymentInfo
refreshedPaymentInfo(prev, data) ==
    IF "accepts" \notin DOMAIN data \/ data.accepts = <<>>
    THEN prev
    ELSE IF prev = Null
         THEN [amount |-> <<>>, token |-> "", recipient |-> "", network |-> "",
               networkName |-> "", description |-> "",
               x402Requirements |-> data.accepts[1]]
         ELSE [x402Requirements |-> data.accepts[1]] @@ prev

grantedContent ==
    [access |-> "granted", videoUrl |-> "blob:video", contentType |-> "video",
     message |-> <<"Payment verified! Video access granted.">>,
     timestamp |-> "now"]

\* part_000 261-335: the retry settles and handleProcessPayment runs to its end
handleProcessPaymentResume ==
    /\ page = "part_000"
    /\ run.handler = "pay"
    /\ run.at = "retry"
    /\ \/ \E message \in FetchErrors :
             /\ error' = message
             /\ status' = "error"
             /\ run' = [run EXCEPT !.at = "end"]
             /\ UNCHANGED <<paymentInfo, content, step>>
       \/ \E resp \in RetryAnswers :
             /\ run' = [run EXCEPT !.at = "end", !.retry = resp]
             /\ IF ok(resp)
                THEN IF ~includes(Get(resp.headers, "Content-Type"), "video/mp4")
                     THEN /\ error' = <<"Expected video response but received: ",
                                        Get(resp.headers, "Content-Type")>>
                          /\ status' = "error"
                          /\ UNCHANGED <<paymentInfo, content, step>>
                     ELSE /\ content' = grantedContent
                          /\ status' = "success"
                          /\ step' = 5
                          /\ UNCHANGED <<paymentInfo, error>>
                ELSE IF isChallenge(resp)
                THEN IF ~isJson(resp)
                     THEN /\ error' = JsonSyntaxError
                          /\ status' = "error"
                          /\ UNCHANGED <<paymentInfo, content, step>>
                     ELSE /\ error' = <<retryErrorMessage(json(resp))>>
                          /\ paymentInfo' = refreshedPaymentInfo(paymentInfo, json(resp))
                          /\ status' = "error"
                          /\ UNCHANGED <<content, step>>
                ELSE /\ error' = UnexpectedStatusMessage(resp)
                     /\ status' = "error"
                     /\ UNCHANGED <<paymentInfo, content, step>>
    /\ UNCHANGED wallet
    /\ UNCHANGED <<page, serverVars, proxyVars>>

(***************************************************************************)
(* handleProcessPayment of the older page (src/app/page.js 145-424): the   *)
(* purchase is first tried through the /api/x402-fetch proxy; whatever is  *)
(* thrown before or during that is caught by catch (apiError), which       *)
(* builds a proof with createPaymentHeader and retries with it.            *)
(***************************************************************************)
\* page.js 322-329: the network of the requirements for createPaymentHeader
convertNetwork(network) ==
    IF network = "eip155:8453" \/ (network # Unset /\ includes(network, "8453"))
    THEN "base"
    ELSE IF network = "eip155:84532"
            \/ (network # Unset /\ includes(network, "84532"))
         THEN "base-sepolia"
         ELSE network

\* page.js 309-349: the fallback from catch (apiError) to the call of
\* createPaymentHeader; stp is the step indicator when the error was thrown
Fallback(r, apiError, stp) ==
    IF ~hasRequirements(r.paymentInfo)
    THEN /\ error' = shownMessage(apiError,
                         <<"Payment requirements not found in API response.">>)
         /\ status' = "error"
         /\ step' = stp
         /\ run' = [r EXCEPT !.at = "end", !.apiError = apiError]
    ELSE IF \/ "resource" \notin DOMAIN r.paymentInfo.x402Requirements
            \/ r.paymentInfo.x402Requirements.resource = <<>>
    THEN /\ error' = shownMessage(apiError,
                         <<"Payment requirements missing resource field.">>)
         /\ status' = "error"
         /\ step' = 4
         /\ run' = [r EXCEPT !.at = "end", !.apiError = apiError]
    ELSE /\ status' = "processing"
         /\ step' = 4
         /\ run' = [r EXCEPT
                      !.at = "sign",
                      !.apiError = apiError,
                      !.built = [walletClient |-> r.walletClient,
                                 x402Version |-> 1,
                                 paymentRequirements |->
                                     [network |-> convertNetwork(
                                          Get(r.paymentInfo.x402Requirements,
                                              "network"))]
                                     @@ r.paymentInfo.x402Requirements,
                                 facilitatorUrl |-> "https://x402.org/facilitator",
                                 held |-> r.paymentInfo.x402Requirements,
                                 signerChainId |-> wallet.chainId]]
         /\ UNCHANGED error

\* page.js 207-212: the resource URL names localhost
isLocalhost(info) ==
    /\ hasRequirements(info)
    /\ "resource" \in DOMAIN info.x402Requirements
    /\ info.x402Requirements.resource # <<>>
    /\ info.x402Requirements.resource[1] = LocalOrigin[1]

\* page.js 185-238: from the wallet client check to the fetch of the proxy
UseProxy(r) ==
    IF r.walletClient = 0
    THEN Fallback(r, WalletClientMessage, 3)
    ELSE IF isLocalhost(r.paymentInfo)
    THEN Fallback(r, <<"Localhost not supported by Thirdweb API - using fallback">>, 4)
    ELSE /\ status' = "processing"
         /\ step' = 4
         /\ run' = [r EXCEPT !.at = "proxy"]
         /\ UNCHANGED error

\* page.js 163-182 up to await switchChain, then on as UseProxy
EnsureNetworkOlder(r) ==
    LET target == targetNetwork(r.paymentInfo)
    IN  IF r.chainId # target.id
        THEN /\ status' = "processing"
             /\ error' = NoError
             /\ step' = 3
             /\ run' = [r EXCEPT !.at = "switchWait", !.switchAsked = TRUE]
             /\ wallet' = [wallet EXCEPT !.pendingSwitch = target.id,
                                         !.switchRejected = FALSE]
        ELSE /\ UseProxy(r)
             /\ UNCHANGED wallet

\* page.js 145-161: the click on Process Payment
handleProcessPaymentOlder ==
    /\ page = "page.js"
    /\ status = "payment-required"
    /\ paymentInfo # Null
    /\ LET r == [NoRun EXCEPT !.handler = "pay",
                              !.isConnected = wallet.isConnected,
                              !.chainId = wallet.chainId,
                              !.walletClient = wallet.chainId,
                              !.paymentInfo = paymentInfo]
       IN  IF ~r.isConnected
           THEN /\ status' = "processing"
                /\ step' = 3
                /\ run' = [r EXCEPT !.at = "connectWait"]
                /\ wallet' = [wallet EXCEPT !.pendingConnect = TRUE,
                                            !.connectRejected = FALSE]
                /\ UNCHANGED error
           ELSE EnsureNetworkOlder(r)
    /\ UNCHANGED <<paymentInfo, content>>
    /\ UNCHANGED <<page, serverVars, proxyVars>>

\* page.js 155-182: connect has returned and the second has passed, or
\* connect threw into catch (apiError)
handleProcessPaymentOlderConnected ==
    /\ page = "page.js"
    /\ run.handler = "pay"
    /\ run.at = "connectWait"
    /\ \/ /\ wallet.connectRejected
          /\ Fallback(run, <<"User rejected the request.">>, 3)
          /\ UNCHANGED wallet
       \/ EnsureNetworkOlder(run)
    /\ UNCHANGED <<paymentInfo, content>>
    /\ UNCHANGED <<page, serverVars, proxyVars>>

\* page.js 174-238: switchChain has returned and the two seconds have passed,
\* or switchChain threw: the error made of it at 179 is thrown inside the
\* outer try and lands in catch (apiError)
handleProcessPaymentOlderSwitched ==
    /\ page = "page.js"
    /\ run.handler = "pay"
    /\ run.at = "switchWait"
    /\ \/ /\ wallet.switchRejected
          /\ Fallback(run, SwitchMessage(targetNetwork(run.paymentInfo)), 3)
       \/ UseProxy(run)
    /\ UNCHANGED <<paymentInfo, content, wallet>>
    /\ UNCHANGED <<page, serverVars, proxyVars>>

\* What POST /api/x402-fetch can answer
ProxyAnswers ==
    {Json([purchaseDetails |-> [transactionId |-> "tx1"],
           paymentHeader |-> "proofA", transactionId |-> "tx1"],
          200, EmptyHeaders),
     Json([data |-> [settled |-> TRUE]], 200, EmptyHeaders),
     Json([message |-> "done"], 200, EmptyHeaders),
     [status |-> 200, headers |-> ("Content-Type" :> "text/html"),
      body |-> [html |-> "OK"]],
     Json([fundingLink |-> "https://fund.example"], 402, EmptyHeaders),
     Json([error |-> "Payment required"], 402, EmptyHeaders),
     Json([message |-> "Upstream failed"], 500, EmptyHeaders),
     [status |-> 502, headers |-> ("Content-Type" :> "text/html"),
      body |-> [html |-> "Bad Gateway"]]}

\* page.js 280-286: the content shown when the purchase succeeded and no
\* video was shown
purchasedContent(purchaseData) ==
    [access |-> "granted",
     message |-> <<"Payment successful! Transaction ID: ",
                   OrElse(Get(purchaseData, "transactionId"), "N/A")>>,
     transactionId |-> Get(purchaseData, "transactionId"),
     timestamp |-> "now"]

\* page.js 227-304: the proxy has answered
handleProcessPaymentOlderProxy ==
    /\ page = "page.js"
    /\ run.handler = "pay"
    /\ run.at = "proxy"
    /\ \/ \E message \in FetchErrors :
             /\ Fallback(run, message, 4)
             /\ UNCHANGED content
       \/ \E resp \in ProxyAnswers :
             LET r == [run EXCEPT !.proxy = resp]
                 purchaseData == json(resp)
             IN  IF ok(resp)
                 THEN IF ~isJson(resp)
                      THEN Fallback(r, JsonSyntaxError, 4) /\ UNCHANGED content
                      ELSE IF /\ \/ "purchaseDetails" \in DOMAIN purchaseData
                                 \/ "data" \in DOMAIN purchaseData
                              /\ Truthy(OrElse(Get(purchaseData, "paymentHeader"),
                                               Get(purchaseData, "xPayment")))
                      THEN /\ run' = [r EXCEPT
                                        !.at = "proxyVideo",
                                        !.sentProofs =
                                            Append(@, OrElse(
                                                Get(purchaseData, "paymentHeader"),
                                                Get(purchaseData, "xPayment")))]
                           /\ UNCHANGED <<status, error, step, content>>
                      ELSE /\ content' = purchasedContent(purchaseData)
                           /\ status' = "success"
                           /\ step' = 5
                           /\ run' = [r EXCEPT !.at = "end"]
                           /\ UNCHANGED error
                 ELSE IF isChallenge(resp)
                 THEN IF ~isJson(resp)
                      THEN Fallback(r, JsonSyntaxError, 4) /\ UNCHANGED content
                      ELSE /\ error' =
                                IF "fundingLink" \in DOMAIN purchaseData
                                THEN <<"Insufficient balance. Please fund your wallet: ",
                                       purchaseData.fundingLink>>
                                ELSE IF "link" \in DOMAIN purchaseData
                                THEN <<"Insufficient balance. Please fund your wallet: ",
                                       purchaseData.link>>
                                ELSE <<"Payment required. Please ensure your wallet has sufficient USDC balance.">>
                           /\ status' = "error"
                           /\ run' = [r EXCEPT !.at = "end"]
                           /\ UNCHANGED <<step, content>>
                 ELSE /\ Fallback(r,
                            <<IF isJson(resp)
                              THEN OrElse(Get(purchaseData, "message"),
                                          "Thirdweb API error")
                              ELSE "Thirdweb API error">>,
                            4)
                      /\ UNCHANGED content
    /\ UNCHANGED <<paymentInfo, wallet>>
    /\ UNCHANGED <<page, serverVars, proxyVars>>

\* page.js 251-285: /api/premium has answered the request that carried the
\* header the proxy returned
handleProcessPaymentOlderVideo ==
    /\ page = "page.js"
    /\ run.handler = "pay"
    /\ run.at = "proxyVideo"
    /\ \/ \E message \in FetchErrors :
             /\ Fallback(run, message, 4)
             /\ UNCHANGED content
       \/ \E resp \in RetryAnswers :
             LET purchaseData == json(run.proxy)
             IN  /\ run' = [run EXCEPT !.at = "end", !.retry = resp]
                 /\ content' =
                       IF ok(resp) /\ includes(Get(resp.headers, "Content-Type"),
                                               "video/mp4")
                       THEN grantedContent
                            @@ [transactionId |->
                                   OrElse(Get(purchaseData, "transactionId"),
                                          purchaseData.purchaseDetails.transactionId)]
                       ELSE purchasedContent(purchaseData)
                 /\ status' = "success"
                 /\ step' = 5
                 /\ UNCHANGED error
    /\ UNCHANGED <<paymentInfo, wallet>>
    /\ UNCHANGED <<page, serverVars, proxyVars>>

\* page.js 391-411: the message made of a 402 answer to the retry
retryErrorMessageOlder(data) ==
    <<OrElse(Get(data, "message"), "Payment verification failed")>>
    \o (IF "invalidReason" \in DOMAIN data
        THEN <<"Reason: ", data.invalidReason>> ELSE <<>>)
    \o (IF "serverDiagnostics" \in DOMAIN data
        THEN <<"Server Diagnostics:", data.serverDiagnostics>> ELSE <<>>)
    \o (IF "debug" \in DOMAIN data THEN <<"Debug Info:", data.debug>> ELSE <<>>)

\* page.js 358-423: the retry of the fallback has been answered
handleProcessPaymentOlderResume ==
    /\ page = "page.js"
    /\ run.handler = "pay"
    /\ run.at = "retry"
    /\ \/ \E message \in FetchErrors :
             /\ error' = shownMessage(run.apiError, message)
             /\ status' = "error"
             /\ run' = [run EXCEPT !.at = "end"]
             /\ UNCHANGED <<content, step>>
       \/ \E resp \in RetryAnswers :
             /\ run' = [run EXCEPT !.at = "end", !.retry = resp]
             /\ IF ok(resp)
                THEN IF ~includes(Get(resp.headers, "Content-Type"), "video/mp4")
                     THEN /\ error' = shownMessage(run.apiError,
                                         <<"Expected video response but received: ",
                                           Get(resp.headers, "Content-Type")>>)
                          /\ status' = "error"
                          /\ UNCHANGED <<content, step>>
                     ELSE /\ content' = grantedContent
                          /\ status' = "success"
                          /\ step' = 5
                          /\ UNCHANGED error
                ELSE IF isChallenge(resp)
                THEN IF ~isJson(resp)
                     THEN /\ error' = shownMessage(run.apiError, JsonSyntaxError)
                          /\ status' = "error"
                          /\ UNCHANGED <<content, step>>
                     ELSE /\ error' = retryErrorMessageOlder(json(resp))
                          /\ status' = "error"
                          /\ UNCHANGED <<content, step>>
                ELSE /\ error' = shownMessage(run.apiError,
                                              UnexpectedStatusMessage(resp))
                     /\ status' = "error"
                     /\ UNCHANGED <<content, step>>
    /\ UNCHANGED <<paymentInfo, wallet>>
    /\ UNCHANGED <<page, serverVars, proxyVars>>

\* The page is loaded with the server configured and the wallet in any state
InitClient ==
    /\ env \in {e \in Environments : /\ e.MERCHANT_ADDRESS # Unset
                                     /\ e.THIRDWEB_SECRET_KEY # Unset
                                     /\ e.THIRDWEB_VAULT_ACCESS_TOKEN # Unset}
    /\ fileState = "present"
    /\ request = [r \in Requests |-> NoRequest]
    /\ pc = [r \in Requests |-> "unsent"]
    /\ settleCalls = [r \in Requests |-> <<>>]
    /\ result = [r \in Requests |-> NoResult]
    /\ response = [r \in Requests |-> NoResponse]
    /\ consumed = {}
    /\ moved = [h \in ProofHeaders |-> 0]
    /\ page \in {"part_000", "page.js"}
    /\ ProxyAtRest
    /\ status = "idle"
    /\ paymentInfo = Null
    /\ content = Null
    /\ error = NoError
    /\ step = 0
    /\ wallet \in Wallets
    /\ run = NoRun

NextClient ==
    \/ handleAccessContent
    \/ handleAccessContentResume
    \/ handleProcessPayment
    \/ handleProcessPaymentConnected
    \/ handleProcessPaymentSwitched
    \/ createPaymentHeader
    \/ handleProcessPaymentResume
    \/ handleProcessPaymentOlder
    \/ handleProcessPaymentOlderConnected
    \/ handleProcessPaymentOlderSwitched
    \/ handleProcessPaymentOlderProxy
    \/ handleProcessPaymentOlderVideo
    \/ handleProcessPaymentOlderResume
    \/ handleReset
    \/ WalletConnects
    \/ WalletRefusesConnection
    \/ WalletSwitches
    \/ WalletRefusesSwitch

SpecClient == InitClient /\ [][NextClient]_vars

(***************************************************************************)
(* Properties of the client page                                           *)
(***************************************************************************)
\* the chain a network identifier names
ChainOfIdentifier(tag) ==
    IF tag \in MainnetIdentifiers THEN base.id ELSE baseSepolia.id

\* C19: the page is in payment-required, holding requirements, only when the
\* first response was a 402, and then it holds that response's requirements;
\* after any other response outside 200-299 the page is in error, shows
\* "Unexpected status: <status>" and holds no requirements.
C19_ChallengeOnlyOn402 ==
    /\ status = "payment-required"
       => /\ run.handler = "access"
          /\ run.at = "end"
          /\ run.initial.status = 402
          /\ paymentInfo # Null
          /\ paymentInfo.x402Requirements = run.initial.body.payment.x402Requirements
    /\ /\ run.handler = "access"
       /\ run.at = "end"
       /\ run.initial # NoResponse
       /\ run.initial.status \notin 200..299
       /\ run.initial.status # 402
       => /\ status = "error"
          /\ error = <<"Unexpected status: ", run.initial.status>>
          /\ paymentInfo = Null

C19_Witness ==
    /\ run.handler = "access"
    /\ run.at = "end"
    /\ run.initial.status = 404
    /\ status = "error"
    /\ error = <<"Unexpected status: ", 404>>
    /\ paymentInfo = Null

\* C20: createPaymentHeader is called only with the wallet on the chain that
\* the held requirements name.
C20_BuilderOnRequiredNetwork ==
    /\ run.built # Null
    /\ "network" \in DOMAIN run.built.held
    => run.built.signerChainId = ChainOfIdentifier(run.built.held.network)

\* C21: when the wallet has refused the change of chain that a run of
\* handleProcessPayment asked for, the run has ended in error with the
\* message that names the network to switch to, createPaymentHeader was not
\* called and no request with an X-PAYMENT header was sent.
C21_SwitchRefusalEndsRun ==
    /\ run.handler = "pay"
    /\ run.switchAsked
    /\ run.at # "switchWait"
    /\ wallet.switchRejected
    => /\ run.at = "end"
       /\ status = "error"
       /\ error = SwitchMessage(targetNetwork(run.paymentInfo))
       /\ run.built = Null
       /\ run.sentProofs = <<>>

\* the adapter of the page in use: normalizeNetworkForSdk in part_000, the
\* conversion written out in the fallback of page.js
networkAdapter(network) ==
    IF page = "part_000" THEN normalizeNetworkForSdk(network)
                         ELSE convertNetwork(network)

\* C22: the requirements given to createPaymentHeader have the fields of the
\* requirements held from the challenge, each with the same value, except
\* network, which is what the page's adapter makes of the held network; while
\* the proof is built and sent, paymentInfo is what it was at the click.
C22_BuilderGetsChallengeRequirements ==
    run.built # Null
    => LET held == run.paymentInfo.x402Requirements
           given == run.built.paymentRequirements
       IN  /\ DOMAIN given \ {"network"} = DOMAIN held \ {"network"}
           /\ \A f \in DOMAIN held \ {"network"} : given[f] = held[f]
           /\ given.network = networkAdapter(Get(held, "network"))
           /\ run.at \in {"sign", "retry"} => paymentInfo = run.paymentInfo

C22_Witness ==
    /\ page = "part_000"
    /\ run.at = "retry"
    /\ run.built # Null
    /\ {"network", "extra"} \subseteq DOMAIN run.paymentInfo.x402Requirements
    /\ run.paymentInfo.x402Requirements.network = "eip155:8453"
    /\ run.built.paymentRequirements.network = "base"
    /\ run.built.paymentRequirements.extra = run.paymentInfo.x402Requirements.extra
    /\ paymentInfo = run.paymentInfo

\* C23: when the retry of part_000 was answered 402 with a non-empty accepts
\* array, paymentInfo holds accepts[0] as x402Requirements and every other
\* field as it was at the click; when accepts is absent or empty, paymentInfo
\* is what it was at the click.
C23_RefreshReplacesHeldRequirements ==
    /\ page = "part_000"
    /\ run.handler = "pay"
    /\ run.at = "end"
    /\ run.retry.status = 402
    /\ isJson(run.retry)
    => LET data == run.retry.body
       IN  IF "accepts" \in DOMAIN data /\ data.accepts # <<>>
           THEN /\ paymentInfo # Null
                /\ paymentInfo.x402Requirements = data.accepts[1]
                /\ DOMAIN paymentInfo = DOMAIN run.paymentInfo
                /\ \A f \in DOMAIN run.paymentInfo \ {"x402Requirements"} :
                      paymentInfo[f] = run.paymentInfo[f]
           ELSE paymentInfo = run.paymentInfo

C23_Witness ==
    /\ page = "part_000"
    /\ run.handler = "pay"
    /\ run.at = "end"
    /\ run.retry.status = 402
    /\ "accepts" \in DOMAIN run.retry.body
    /\ run.retry.body.accepts # <<>>
    /\ paymentInfo.x402Requirements = run.retry.body.accepts[1]
    /\ paymentInfo.x402Requirements # run.paymentInfo.x402Requirements
    /\ paymentInfo.network = run.paymentInfo.network

\* C24: a run of handleProcessPayment sends at most one request with an
\* X-PAYMENT header, and a run whose request with the header was answered
\* 402 has ended in error having sent exactly that one request.
C24_OneProofRequestPerRun ==
    /\ Len(run.sentProofs) <= 1
    /\ /\ run.handler = "pay"
       /\ run.at = "end"
       /\ run.retry.status = 402
       => /\ status = "error"
          /\ Len(run.sentProofs) = 1

\* the message of the error createPaymentHeader rejects with when the user
\* dismisses the signature request
SigningRejectedMessage == <<"User rejected the request.">>

\* C25: a handler that ended because a call failed shows that call's error:
\* after a first fetch that rejected, the fetch's message; after a proof
\* builder that rejected, the builder's message; after a proof was built and
\* the retry's fetch rejected, that fetch's message.
C25_ShownErrorIsTheCause ==
    /\ /\ run.handler = "access"
       /\ run.at = "end"
       /\ run.initial = NoResponse
       => status = "error" /\ error \in FetchErrors
    /\ /\ run.handler = "pay"
       /\ run.at = "end"
       /\ run.built # Null
       /\ run.retry = NoResponse
       => /\ status = "error"
          /\ IF run.cancelled
             THEN error = SigningRejectedMessage
             ELSE error \in FetchErrors

\* C26: after the user closed or rejected the signature request of a run of
\* part_000, the page is idle, holds no requirements, and the run has sent no
\* request with an X-PAYMENT header.
C26_CancelledSigningReturnsToIdle ==
    /\ page = "part_000"
    /\ run.cancelled
    => /\ status = "idle"
       /\ paymentInfo = Null
       /\ run.sentProofs = <<>>

\* the requests whose challenges the first fetch can be answered with
ChallengedRequests ==
    {[url |-> PremiumUrl, xPayment |-> NoHeader],
     [url |-> [PremiumUrl EXCEPT !.origin = <<"http://localhost:3000">>],
      xPayment |-> NoHeader]}

\* C27: when the first fetch was answered with the Resource Guard's challenge
\* for a request, the requirements the page holds have the fields of the
\* requirements the Guard built for that request, each with the same value,
\* and the same entries in extra.
C27_RequirementsSurviveExchange ==
    \A req \in ChallengedRequests :
        /\ run.handler = "access"
        /\ run.at = "end"
        /\ run.initial = Json(challengeBody(buildPaymentConfig(req)), 402,
                              EmptyHeaders)
        => LET issued == buildX402Requirements(req)
           IN  /\ status = "payment-required"
               /\ paymentInfo # Null
               /\ DOMAIN paymentInfo.x402Requirements = DOMAIN issued
               /\ \A f \in DOMAIN issued \ {"extra"} :
                     paymentInfo.x402Requirements[f] = issued[f]
               /\ DOMAIN paymentInfo.x402Requirements.extra = DOMAIN issued.extra
               /\ \A g \in DOMAIN issued.extra :
                     paymentInfo.x402Requirements.extra[g] = issued.extra[g]

C27_Witness ==
    /\ run.handler = "access"
    /\ run.at = "end"
    /\ run.initial = ServedChallenge
    /\ status = "payment-required"
    /\ paymentInfo.x402Requirements.maxTimeoutSeconds = PAYMENT_TIMEOUT_SECONDS
    /\ paymentInfo.x402Requirements.extra.primaryType = "TransferWithAuthorization"
    /\ paymentInfo.x402Requirements.network = "base-sepolia"

\* C28: on part_000, a 402 whose requirements lack one of the required fields
\* leaves the page in error holding nothing, and createPaymentHeader is
\* called only for held requirements that have every required field.
C28_DecodingFailsClosed ==
    page = "part_000"
    => /\ /\ run.handler = "access"
          /\ run.at = "end"
          /\ run.initial.status = 402
          /\ isJson(run.initial)
          /\ hasRequirements(paymentOf(run.initial.body))
          /\ ~(RequiredFields \subseteq
                   DOMAIN paymentOf(run.initial.body).x402Requirements)
          => status = "error" /\ paymentInfo = Null
       /\ run.built # Null
          => RequiredFields \subseteq DOMAIN run.paymentInfo.x402Requirements

(***************************************************************************)
(* The Resource Guard under configured amounts: PAYMENT_AMOUNT unset, whole *)
(* cents, and amounts that are not a whole number of cents.                *)
(***************************************************************************)
ConfiguredAmounts ==
    {<<>>, <<1, 0, 0, 0, 0>>, <<2, 5, 0, 0, 0, 0>>, <<1, 2, 3, 4>>,
     <<1, 0, 5, 0, 0, 0>>, <<1, 2, 5, 0, 0, 0>>, <<9, 9, 9, 9, 9, 9>>}

InitAmounts ==
    /\ env \in {[e EXCEPT !.PAYMENT_AMOUNT = a] :
                  e \in {e \in Environments : /\ e.MERCHANT_ADDRESS # Unset
                                              /\ e.NEXT_PUBLIC_NETWORK = Unset
                                              /\ e.THIRDWEB_SECRET_KEY # Unset
                                              /\ e.THIRDWEB_VAULT_ACCESS_TOKEN # Unset},
                  a \in ConfiguredAmounts}
    /\ fileState = "present"
    /\ request = [r \in Requests |-> NoRequest]
    /\ pc = [r \in Requests |-> "unsent"]
    /\ settleCalls = [r \in Requests |-> <<>>]
    /\ result = [r \in Requests |-> NoResult]
    /\ response = [r \in Requests |-> NoResponse]
    /\ consumed = {}
    /\ moved = [h \in ProofHeaders |-> 0]
    /\ ClientAtRest
    /\ ProxyAtRest

GETAmount(r) == GETFrom(r, Requests, {PremiumUrl}, {NoHeader, "proofA"})

NextAmounts ==
    \E r \in Requests : GETAmount(r) \/ settlePayment(r) \/ GETResume(r)

SpecAmounts == InitAmounts /\ [][NextAmounts]_vars

\* C29: the price passed to settlePayment, in dollars and cents, is the amount
\* that the challenges of the same configuration advertise as
\* maxAmountRequired, in millionths of a dollar.
C29_PriceDenotesAdvertisedAmount ==
    \A r, q \in Requests :
        /\ settleCalls[r] # <<>>
        /\ pc[q] = "done"
        /\ request[q].xPayment = NoHeader
        => settleCalls[r][1].price.cents * 10000
              = parseInt(response[q].body.maxAmountRequired)

\* C30: the network handed to createPaymentHeader is "base-sepolia" when the
\* held requirements name Base Sepolia in any of its forms, and "base" when
\* they name Base in any of its forms.
C30_AdapterMapsEachNetworkToItsTag ==
    /\ run.built # Null
    /\ "network" \in DOMAIN run.paymentInfo.x402Requirements
    => LET network == run.paymentInfo.x402Requirements.network
           tag == run.built.paymentRequirements.network
       IN  /\ network \in SepoliaIdentifiers => tag = "base-sepolia"
           /\ network \in MainnetIdentifiers => tag = "base"

\* the 402 responses that the GET handlers of this repository send
IssuedChallenges == {ServedChallenge, ServedChallengeLocal, EarlierChallenge}

\* C31: in a run of handleProcessPayment over a challenge that a GET handler
\* of this repository issued, the chain the run takes from paymentInfo.network
\* as the one to be on is the chain named by the network tag that
\* createPaymentHeader is given.
C31_SwitchChainIsBuilderChain ==
    /\ run.built # Null
    /\ \E c \in IssuedChallenges :
          run.paymentInfo = normalizePayment(paymentOf(json(c)))
    => targetNetwork(run.paymentInfo).id
          = ChainOfNetwork(run.built.paymentRequirements.network)

(***************************************************************************)
(* The Resource Guard under configured networks: NEXT_PUBLIC_NETWORK unset, *)
(* empty, the names of Base and of Base Sepolia in several spellings, and  *)
(* values that name neither.                                               *)
(***************************************************************************)
ConfiguredNetworks ==
    {Unset, "", "base", "BASE", "Base", "base:8453", "Base:8453",
     "eip155:8453", "EIP155:8453", "base-sepolia", "Base-Sepolia",
     "base:84532", "eip155:84532", "EIP155:84532", "8453", "mainnet",
     "ethereum"}

InitNetworks ==
    /\ env \in {[e EXCEPT !.NEXT_PUBLIC_NETWORK = n] :
                  e \in {e \in Environments : /\ e.MERCHANT_ADDRESS # Unset
                                              /\ e.NEXT_PUBLIC_NETWORK = Unset
                                              /\ e.THIRDWEB_SECRET_KEY # Unset
                                              /\ e.THIRDWEB_VAULT_ACCESS_TOKEN # Unset},
                  n \in ConfiguredNetworks}
    /\ fileState = "present"
    /\ request = [r \in Requests |-> NoRequest]
    /\ pc = [r \in Requests |-> "unsent"]
    /\ settleCalls = [r \in Requests |-> <<>>]
    /\ result = [r \in Requests |-> NoResult]
    /\ response = [r \in Requests |-> NoResponse]
    /\ consumed = {}
    /\ moved = [h \in ProofHeaders |-> 0]
    /\ ClientAtRest
    /\ ProxyAtRest

GETNetwork(r) == GETFrom(r, Requests, {PremiumUrl}, {NoHeader, "proofA"})

NextNetworks ==
    \E r \in Requests : GETNetwork(r) \/ settlePayment(r) \/ GETResume(r)

SpecNetworks == InitNetworks /\ [][NextNetworks]_vars

\* the configured values that name Base once letter case is set aside; an
\* unset or empty variable takes the default, "base"
MainnetSpellings ==
    {Unset, "", "base", "BASE", "Base", "base:8453", "Base:8453",
     "eip155:8453", "EIP155:8453"}

\* the chain whose USDC contract an address is
ChainOfAsset(address) ==
    CASE address = USDC_MAINNET -> base.id
      [] address = USDC_SEPOLIA -> baseSepolia.id
      [] OTHER -> 0

ConfiguredChain ==
    IF env.NEXT_PUBLIC_NETWORK \in MainnetSpellings THEN base.id
                                                    ELSE baseSepolia.id

\* the challenges answered so far
ChallengesSent ==
    {response[q].body : q \in {q \in Requests : /\ pc[q] = "done"
                                                /\ request[q].xPayment = NoHeader}}

\* C32: under every configured NETWORK the network tag and the asset of every
\* challenge, in the body and in accepts[0], and the chain object of every
\* settlePayment call name one chain: Base when the value is an alias of the
\* mainnet, Base Sepolia for every other value.
C32_NetworkAssetAndChainAgree ==
    /\ \A body \in ChallengesSent :
          /\ ChainOfIdentifier(body.network) = ConfiguredChain
          /\ ChainOfAsset(body.asset) = ConfiguredChain
          /\ ChainOfIdentifier(body.accepts[1].network) = ConfiguredChain
          /\ ChainOfAsset(body.accepts[1].asset) = ConfiguredChain
          /\ body.network \in {"base", "base-sepolia"}
    /\ \A r \in Requests :
          settleCalls[r] # <<>> => settleCalls[r][1].network.id = ConfiguredChain

\* a value that names no chain has selected Base Sepolia in a challenge and
\* in a settlement, and a mainnet alias in capitals has selected Base in both
C32_Witness ==
    /\ ChallengesSent # {}
    /\ \E r \in Requests : settleCalls[r] # <<>>
    /\ env.NEXT_PUBLIC_NETWORK \in {"ethereum", "BASE"}

\* the proxy answered this run with a purchase: a 2xx JSON body carrying
\* purchaseDetails or data
PurchaseReturned ==
    /\ run.handler = "pay"
    /\ ok(run.proxy)
    /\ isJson(run.proxy)
    /\ \/ "purchaseDetails" \in DOMAIN json(run.proxy)
       \/ "data" \in DOMAIN json(run.proxy)

\* C33: in a run of handleProcessPayment in which the proxy returned a
\* purchase, createPaymentHeader is not asked for a proof and the only header
\* sent to /api/premium is the one the proxy returned.
C33_NoSecondPaymentAfterPurchase ==
    PurchaseReturned
    => /\ run.built = Null
       /\ \A i \in DOMAIN run.sentProofs :
             run.sentProofs[i] = OrElse(Get(json(run.proxy), "paymentHeader"),
                                        Get(json(run.proxy), "xPayment"))

\* C34: the page is in success only when the handler that ran last received
\* a 2xx answer from /api/premium: handleAccessContent to its request,
\* handleProcessPayment to the request that carried the proof, and that
\* answer was of content type video/mp4.
C34_SuccessOnlyAfter2xx ==
    status = "success"
    => \/ /\ run.handler = "access"
          /\ ok(run.initial)
       \/ /\ run.handler = "pay"
          /\ ok(run.retry)
          /\ includes(Get(run.retry.headers, "Content-Type"), "video/mp4")

\* a handler has been started and has not run to its end
InFlight == run.at # "end"

\* the steps that are a click on one of the page's buttons
UserAction ==
    \/ handleAccessContent
    \/ handleProcessPayment
    \/ handleProcessPaymentOlder
    \/ handleReset

\* C35: Access Premium Content is clicked only in idle, Process Payment only
\* in payment-required, Reset only in payment-required, success and error; a
\* handler that has not ended keeps the page in loading or processing, where
\* no button is rendered, so no click starts a handler or resets the page
\* while a handler is awaiting.
C35_ActionsOnlyWhenNotBusy ==
    /\ [](InFlight => status \in {"loading", "processing"})
    /\ [][handleAccessContent => status = "idle"]_vars
    /\ [][handleProcessPayment \/ handleProcessPaymentOlder
            => status = "payment-required"]_vars
    /\ [][handleReset => status \in {"payment-required", "success", "error"}]_vars
    /\ [][UserAction => ~InFlight /\ status \notin {"loading", "processing"}]_vars

\* handleProcessPayment is awaiting the answer to its request with the proof
C35_Witness ==
    /\ page = "part_000"
    /\ status = "processing"
    /\ run.handler = "pay"
    /\ run.at = "retry"

\* C36: while the page shows an error the only click there is resets the
\* page and drops the held requirements, and every click on Process Payment
\* follows a handleAccessContent that ended with a 402 and hands on the
\* requirements that this 402 carried: requirements stored from the 402
\* answer to a retry are never given to createPaymentHeader.
C36_ProofOnlyFromFreshChallenge ==
    /\ [][status = "error" /\ UserAction
            => status' = "idle" /\ paymentInfo' = Null]_vars
    /\ [][handleProcessPayment \/ handleProcessPaymentOlder
            => /\ run.handler = "access"
               /\ run.at = "end"
               /\ isChallenge(run.initial)
               /\ paymentInfo = normalizePayment(paymentOf(json(run.initial)))
               /\ run'.paymentInfo = paymentInfo]_vars
    /\ [](run.built # Null
            => run.built.held = run.paymentInfo.x402Requirements)

\* handleProcessPayment ended in error on a 402 whose accepts[0] replaced the
\* requirements the proof was built from
C36_Witness ==
    /\ page = "part_000"
    /\ status = "error"
    /\ run.handler = "pay"
    /\ run.at = "end"
    /\ run.retry.status = 402
    /\ run.built # Null
    /\ paymentInfo # Null
    /\ paymentInfo.x402Requirements # run.built.held

(***************************************************************************)
(* The x402-fetch proxy: POST (route.js 903-984).  A handling runs from    *)
(* the arrival of the request to the await of the fetch of the thirdweb    *)
(* API in one step, and resumes when that fetch settles.                   *)
(***************************************************************************)
THIRDWEB_API_URL == "https://api.thirdweb.com/v1/payments/x402/fetch"

\* The bodies a POST can carry: text that is not JSON, the JSON null, and
\* objects with and without url, method and from
PostBodies ==
    LET full == [url |-> "https://paywall.example/api/premium",
                 method |-> "GET", from |-> "0xPayer"]
    IN  {[kind |-> "malformed", text |-> EmptyHeaders],
         [kind |-> "null", text |-> EmptyHeaders]}
        \cup {[kind |-> "object", text |-> JSONstringify(object)] :
                object \in {full,
                            Without(full, "method"),
                            Without(full, "url"),
                            Without(full, "from"),
                            [full EXCEPT !.url = ""],
                            [full EXCEPT !.from = ""],
                            [full EXCEPT !.method = "POST"]}}

\* What the thirdweb API can answer: the purchase, a settled purchase without
\* header, no content, the funding request, and failures with and without a
\* JSON body
UpstreamAnswers ==
    {[kind |-> "answered", status |-> a.status, json |-> TRUE,
      text |-> JSONstringify(a.body), message |-> ""] :
        a \in {[status |-> 200,
                body |-> [purchaseDetails |-> [transactionId |-> "tx1"],
                          paymentHeader |-> "proofA", transactionId |-> "tx1"]],
               [status |-> 200, body |-> [data |-> [settled |-> TRUE]]],
               [status |-> 402, body |-> [fundingLink |-> "https://fund.example"]],
               [status |-> 401, body |-> [message |-> "Unauthorized"]],
               [status |-> 500, body |-> [message |-> "Upstream failed"]]}}
    \cup {[kind |-> "answered", status |-> 204, json |-> FALSE, text |-> "",
           message |-> ""],
          [kind |-> "answered", status |-> 200, json |-> FALSE, text |-> "OK",
           message |-> ""],
          [kind |-> "answered", status |-> 502, json |-> FALSE,
           text |-> "Bad Gateway", message |-> ""]}

\* the statuses with which a Response cannot carry a body: the constructor
\* throws a TypeError when it is given one
NullBodyStatuses == {101, 103, 204, 205, 304}

\* route.js 974-983: the answer of the catch
proxyError(message) ==
    Json([error |-> "Proxy error",
          message |-> OrElse(message, "Failed to call Thirdweb x402/fetch API")],
         500, EmptyHeaders)

\* route.js 903-951: a POST arrives and runs up to await fetch(...)
POST(p) ==
    /\ post[p].pc = "unsent"
    /\ \E body \in PostBodies :
          LET thirdwebSecretKey == env.THIRDWEB_SECRET_KEY
              answered(resp) ==
                  post' = [post EXCEPT ![p] = [@ EXCEPT !.pc = "done",
                                                        !.body = body,
                                                        !.response = resp]]
          IN  IF ~Truthy(thirdwebSecretKey)
              THEN answered(Json(
                       [error |-> "THIRDWEB_SECRET_KEY not configured",
                        message |-> "Thirdweb secret key is required for x402/fetch API"],
                       500, EmptyHeaders))
              ELSE IF body.kind = "malformed"
              THEN answered(proxyError("Unexpected token 'u', \"url=https\"... is not valid JSON"))
              ELSE IF body.kind = "null"
              THEN answered(proxyError(
                       "Cannot destructure property 'url' of 'body' as it is null."))
              ELSE LET parsed == JSONparse(body.text)
                       url == Get(parsed, "url")
                       method == IF "method" \in DOMAIN parsed THEN parsed.method
                                                              ELSE "GET"
                       from == Get(parsed, "from")
                   IN  IF ~Truthy(url) \/ ~Truthy(from)
                       THEN answered(Json(
                                [error |-> "Missing required parameters",
                                 message |-> "url and from (wallet address) are required"],
                                400, EmptyHeaders))
                       ELSE post' =
                              [post EXCEPT ![p] =
                                 [@ EXCEPT
                                    !.pc = "upstream",
                                    !.body = body,
                                    !.calls =
                                       Append(@,
                                          [url |-> THIRDWEB_API_URL,
                                           query |-> [url |-> url,
                                                      method |-> method,
                                                      from |-> from],
                                           method |-> "POST",
                                           secretKey |-> thirdwebSecretKey])]]
    /\ UNCHANGED <<serverVars, clientVars>>

\* route.js 951-983: the fetch has settled and POST runs to its end
POSTResume(p) ==
    /\ post[p].pc = "upstream"
    /\ \/ \E message \in TransportErrors :
             post' = [post EXCEPT ![p] =
                        [@ EXCEPT !.pc = "done",
                                  !.upstream = [NoUpstream EXCEPT
                                                   !.kind = "threw",
                                                   !.message = message],
                                  !.response = proxyError(message)]]
       \/ \E answer \in UpstreamAnswers :
             LET responseData == IF answer.json THEN JSONparse(answer.text)
                                                ELSE [message |-> answer.text]
             IN  post' = [post EXCEPT ![p] =
                            [@ EXCEPT
                               !.pc = "done",
                               !.upstream = answer,
                               !.response =
                                  IF answer.status \in NullBodyStatuses
                                  THEN proxyError("Response constructor: Invalid response status code 204")
                                  ELSE Json(responseData, answer.status,
                                            EmptyHeaders)]]
    /\ UNCHANGED <<serverVars, clientVars>>

InitProxy ==
    /\ env \in {e \in Environments : /\ e.MERCHANT_ADDRESS # Unset
                                     /\ e.NEXT_PUBLIC_NETWORK = Unset
                                     /\ e.THIRDWEB_VAULT_ACCESS_TOKEN # Unset}
    /\ fileState = "present"
    /\ request = [r \in Requests |-> NoRequest]
    /\ pc = [r \in Requests |-> "unsent"]
    /\ settleCalls = [r \in Requests |-> <<>>]
    /\ result = [r \in Requests |-> NoResult]
    /\ response = [r \in Requests |-> NoResponse]
    /\ consumed = {}
    /\ moved = [h \in ProofHeaders |-> 0]
    /\ ClientAtRest
    /\ ProxyAtRest

NextProxy == \E p \in Requests : POST(p) \/ POSTResume(p)

SpecProxy == InitProxy /\ [][NextProxy]_vars

\* the body is a JSON object that carries a non-empty value under the key
Carries(body, key) ==
    /\ body.kind = "object"
    /\ key \in DOMAIN body.text
    /\ body.text[key].text # ""

\* C37: the proxy makes no call to the thirdweb API and answers 500 when the
\* secret key is not configured, makes none and answers 400 when the body
\* carries no url or no from, and otherwise makes exactly one call and
\* answers with the status the API returned, or with 500 when the call threw.
C37_ProxyCallsUpstreamOnce ==
    \A p \in Requests :
        /\ Len(post[p].calls) <= 1
        /\ post[p].pc = "done"
           => IF ~Truthy(env.THIRDWEB_SECRET_KEY)
              THEN post[p].response.status = 500 /\ post[p].calls = <<>>
              ELSE IF ~Carries(post[p].body, "url") \/ ~Carries(post[p].body, "from")
              THEN post[p].response.status = 400 /\ post[p].calls = <<>>
              ELSE /\ Len(post[p].calls) = 1
                   /\ post[p].response.status =
                         IF post[p].upstream.kind = "threw" THEN 500
                         ELSE post[p].upstream.status

====
